---- MODULE Spec2Model ----
(***************************************************************************)
(* A model of gohatch: the scaffold pipeline of cmd/gohatch/main.go, the   *)
(* git acquisition of internal/source and the rewrite engine of            *)
(* internal/rewrite (RenamePaths, Module, Variables).                      *)
(*                                                                         *)
(* Strings are sequences of one-character strings; a path is a sequence    *)
(* of entry names whose first element is the base name of the root         *)
(* directory the operation was called with.                                *)
(***************************************************************************)
EXTENDS Naturals, Sequences, FiniteSets, TLC

VARIABLES
    \* ---- cmd/gohatch: run / executeScaffold
    pc,          \* position of run/executeScaffold
    opts,        \* the command line and the environment it meets
    dst,         \* what the destination directory is on disk
    started,     \* the stages of executeScaffold started so far, in order
    libCalls,    \* the library operations invoked so far, in order
    returned,    \* what each started stage returned, in order ("nil" or an error)
    runErr,      \* what run returns ("none" while running, "nil" for success)
    \* ---- internal/source: GitSource.Fetch
    git,         \* the GitSource and the behaviour of its Cloner/Lister doubles
    gitCalls,    \* the calls Fetch issued to the cloner, lister, worktree, os
    gitErr,      \* what Fetch returned ("none" before it ran)
    \* ---- internal/rewrite: RenamePaths, Module, Variables
    fs,          \* the tree on disk: path -> entry
    args,        \* the arguments the operations are called with
    hist         \* the calls made so far: what each found, left and returned

scaffoldVars == <<pc, opts, dst, started, libCalls, returned, runErr>>
fetchVars == <<git, gitCalls, gitErr>>
rewriteVars == <<fs, args, hist>>
vars ==
    <<pc, opts, dst, started, libCalls, returned, runErr, git, gitCalls, gitErr,
      fs, args, hist>>

(***************************************************************************)
(* Strings (package strings, bytes, path/filepath)                         *)
(***************************************************************************)

\* The characters of the model in ASCII order; CharRank is a character's
\* position in it, which is what sorting by name compares.
Ascii ==
    << ".", "/", "2", "A", "B", "_", "a", "c", "d", "e", "f", "g", "h", "i",
       "l", "m", "n", "o", "p", "r", "t", "v", "x", "y" >>

CharRank(c) == CHOOSE i \in 1..Len(Ascii) : Ascii[i] = c

\* The double-quote character and the back-quote character of Go string
\* literals.
DQ == "dq"
BQ == "bq"

\* strings.HasPrefix, strings.HasSuffix
HasPrefix(s, prefix) ==
    /\ Len(prefix) <= Len(s)
    /\ SubSeq(s, 1, Len(prefix)) = prefix

HasSuffix(s, suffix) ==
    /\ Len(suffix) <= Len(s)
    /\ SubSeq(s, Len(s) - Len(suffix) + 1, Len(s)) = suffix

\* strings.TrimPrefix
TrimPrefix(s, prefix) ==
    IF HasPrefix(s, prefix) THEN SubSeq(s, Len(prefix) + 1, Len(s)) ELSE s

\* strings.Contains
Contains(s, sub) ==
    \E i \in 1..(Len(s) + 1) :
        /\ i + Len(sub) - 1 <= Len(s)
        /\ SubSeq(s, i, i + Len(sub) - 1) = sub

\* strings.Trim(s, cutset) for a cutset of one character: every leading and
\* every trailing occurrence of it is removed.
RECURSIVE TrimLeft(_, _)
TrimLeft(s, c) ==
    IF s # << >> /\ s[1] = c THEN TrimLeft(Tail(s), c) ELSE s

RECURSIVE TrimRight(_, _)
TrimRight(s, c) ==
    IF s # << >> /\ s[Len(s)] = c
    THEN TrimRight(SubSeq(s, 1, Len(s) - 1), c)
    ELSE s

Trim(s, c) == TrimRight(TrimLeft(s, c), c)

\* strings.ReplaceAll / bytes.ReplaceAll: the non-overlapping occurrences of
\* old, found from the left, are replaced by new. An empty old matches before
\* every character and at the end.
RECURSIVE ReplaceAll(_, _, _)
ReplaceAll(s, old, new) ==
    IF old = << >>
    THEN IF s = << >> THEN new
         ELSE new \o <<s[1]>> \o ReplaceAll(Tail(s), old, new)
    ELSE IF Len(s) < Len(old) THEN s
    ELSE IF HasPrefix(s, old)
    THEN new \o ReplaceAll(SubSeq(s, Len(old) + 1, Len(s)), old, new)
    ELSE <<s[1]>> \o ReplaceAll(Tail(s), old, new)

\* filepath.Ext of an entry name: the suffix starting at its last dot, or
\* the empty string when it has none.
RECURSIVE Ext(_)
Ext(name) ==
    IF name = << >> THEN << >>
    ELSE IF \E i \in 2..Len(name) : name[i] = "."
    THEN Ext(Tail(name))
    ELSE IF name[1] = "." THEN name
    ELSE << >>

\* s < t in byte order (the order of os.ReadDir, which WalkDir follows).
RECURSIVE StrLess(_, _)
StrLess(s, t) ==
    IF t = << >> THEN FALSE
    ELSE IF s = << >> THEN TRUE
    ELSE IF s[1] = t[1] THEN StrLess(Tail(s), Tail(t))
    ELSE CharRank(s[1]) < CharRank(t[1])

\* The elements of a set of strings as a sequence in byte order.
RECURSIVE SortNames(_)
SortNames(names) ==
    IF names = {} THEN << >>
    ELSE LET least == CHOOSE n \in names :
                          \A m \in names \ {n} : StrLess(n, m)
         IN  <<least>> \o SortNames(names \ {least})

\* All orders in which the elements of a finite set can be enumerated (the
\* iteration order of a Go map is unspecified).
RECURSIVE Orders(_)
Orders(set) ==
    IF set = {} THEN { << >> }
    ELSE UNION { { <<x>> \o rest : rest \in Orders(set \ {x}) } : x \in set }

\* The concatenation of a sequence of sequences.
RECURSIVE Flatten(_)
Flatten(ss) == IF ss = << >> THEN << >> ELSE Head(ss) \o Flatten(Tail(ss))

(***************************************************************************)
(* The file tree                                                           *)
(***************************************************************************)

\* Entry names the code compares against.
VendorName == <<"v", "e", "n", "d", "o", "r">>
GitName == <<".", "g", "i", "t">>
GoModName == <<"g", "o", ".", "m", "o", "d">>
GoExt == <<".", "g", "o">>

\* A directory entry, and a file with its content. The content of a file is
\* its import declarations (each the string literal as written, quotes
\* included), the rest of its text, and whether go/parser rejects it. The
\* declarations and the text are on different lines, so a byte-level
\* replacement of a one-line string acts on each of them separately.
DirEntry == [kind |-> "dir", imports |-> << >>, body |-> << >>, bad |-> FALSE]

File(imports, body, bad) ==
    [kind |-> "file", imports |-> imports, body |-> body, bad |-> bad]

\* filepath.Dir and filepath.Base of a path of at least one name.
Dir(path) == SubSeq(path, 1, Len(path) - 1)
Base(path) == path[Len(path)]

IsUnder(path, dir) == Len(path) > Len(dir) /\ SubSeq(path, 1, Len(dir)) = dir

\* os.ReadDir: the names in a directory, sorted.
Children(tree, dir) ==
    SortNames({ Base(p) : p \in { q \in DOMAIN tree : Dir(q) = dir } })

\* filepath.WalkDir with a callback that returns filepath.SkipDir for the
\* directories whose name is in pruned and nil otherwise: the paths the
\* callback goes on to handle, in the order of the walk. The root is an
\* entry like any other: a pruned root ends the walk at once.
RECURSIVE WalkFrom(_, _, _)
RECURSIVE WalkList(_, _, _, _)
WalkFrom(tree, path, pruned) ==
    IF tree[path].kind = "dir" /\ Base(path) \in pruned THEN << >>
    ELSE IF tree[path].kind # "dir" THEN <<path>>
    ELSE <<path>> \o WalkList(tree, path, Children(tree, path), pruned)

WalkList(tree, dir, names, pruned) ==
    IF names = << >> THEN << >>
    ELSE WalkFrom(tree, Append(dir, Head(names)), pruned)
            \o WalkList(tree, dir, Tail(names), pruned)

\* filepath.Rel(dir, path) for a path at or under dir.
Rel(dir, path) == SubSeq(path, Len(dir) + 1, Len(path))

\* What an operation of the rewrite engine leaves and returns: the tree, the
\* returned list (a nil slice is the empty list), the error ("nil" or its
\* message), the files it wrote in order, and for RenamePaths the renames it
\* attempted.
Result(tree, list, err, writes, log) ==
    [tree |-> tree, list |-> list, err |-> err, writes |-> writes, log |-> log]

(***************************************************************************)
(* internal/rewrite/patterns.go                                            *)
(***************************************************************************)

\* A pattern set that keeps the patterns as they were written.
ParseFilePatternsKeepingDots(patterns) ==
    { patterns[i] : i \in 1..Len(patterns) } \ { << >> }

\* parseFilePatterns: one leading dot is removed, empty patterns dropped.
ParseFilePatterns(patterns) ==
    { TrimPrefix(patterns[i], <<".">>) : i \in 1..Len(patterns) } \ { << >> }

\* matchesFilePattern: the name itself, or its extension without the dot.
MatchesFilePattern(name, patternSet) ==
    IF name \in patternSet THEN TRUE
    ELSE IF Ext(name) # << >>
    THEN TrimPrefix(Ext(name), <<".">>) \in patternSet
    ELSE FALSE

(***************************************************************************)
(* internal/rewrite/module.go                                              *)
(***************************************************************************)

\* go.mod as text: the module directive (the one token "M", which no module
\* path of the model contains) followed by the module path. Format writes
\* it, ParseLax reads the path back.
GoModText(modulePath) == <<"M">> \o modulePath
ModulePathOf(data) == Tail(data.body)

\* HasGoMod: os.Stat of dir/go.mod succeeds.
HasGoMod(tree, dir) == Append(dir, GoModName) \in DOMAIN tree

\* rewriteGoFile, the loop body: imp.Path.Value is the literal as written;
\* only double quotes are trimmed from it before it is compared.
ImportPath(lit) == Trim(lit, DQ)

ImportMatches(lit, oldModule) ==
    \/ ImportPath(lit) = oldModule
    \/ HasPrefix(ImportPath(lit), oldModule \o <<"/">>)

RewriteImport(lit, oldModule, newModule) ==
    IF ImportMatches(lit, oldModule)
    THEN <<DQ>> \o newModule \o TrimPrefix(ImportPath(lit), oldModule) \o <<DQ>>
    ELSE lit

\* rewriteGoFile: a file go/parser rejects is an error; a file with no
\* matching import is left alone; otherwise it is formatted and written.
RewriteGoFile(data, oldModule, newModule) ==
    IF data.bad THEN [err |-> "parsing", modified |-> FALSE, data |-> data]
    ELSE LET imports ==
                 [i \in DOMAIN data.imports |->
                     RewriteImport(data.imports[i], oldModule, newModule)]
             modified ==
                 \E i \in DOMAIN data.imports :
                     ImportMatches(data.imports[i], oldModule)
         IN  [err |-> "nil", modified |-> modified,
              data |-> IF modified THEN [data EXCEPT !.imports = imports]
                       ELSE data]

\* A plausible slip: the import pass descends into vendor like anywhere else.
GoFilesPrunedNothing == { }

\* The directories the import pass does not descend into.
GoFilesPruned == { VendorName }

\* rewriteGoFiles, the callback over the walk: directories are passed over,
\* files that do not end in .go are passed over, the first error ends the
\* walk with the files modified so far left modified.
RECURSIVE RewriteGoFilesFrom(_, _, _, _, _)
RewriteGoFilesFrom(acc, paths, dir, oldModule, newModule) ==
    IF paths = << >> \/ acc.err # "nil" THEN acc
    ELSE LET path == Head(paths)
             data == acc.tree[path]
             r == RewriteGoFile(data, oldModule, newModule)
         IN  IF data.kind = "dir" \/ ~HasSuffix(Base(path), GoExt)
             THEN RewriteGoFilesFrom(acc, Tail(paths), dir, oldModule, newModule)
             ELSE IF r.err # "nil"
             THEN [acc EXCEPT !.err = r.err]
             ELSE IF r.modified
             THEN RewriteGoFilesFrom(
                      Result([acc.tree EXCEPT ![path] = r.data],
                             Append(acc.list, Rel(dir, path)), "nil",
                             Append(acc.writes, path), acc.log),
                      Tail(paths), dir, oldModule, newModule)
             ELSE RewriteGoFilesFrom(acc, Tail(paths), dir, oldModule, newModule)

RewriteGoFiles(tree, dir, oldModule, newModule) ==
    RewriteGoFilesFrom(Result(tree, << >>, "nil", << >>, << >>),
                       WalkFrom(tree, dir, GoFilesPruned),
                       dir, oldModule, newModule)

\* rewriteTextFile: bytes.ReplaceAll over the whole file.
RewriteTextFile(data, oldModule, newModule) ==
    [data EXCEPT
        !.imports = [i \in DOMAIN data.imports |->
                        ReplaceAll(data.imports[i], oldModule, newModule)],
        !.body = ReplaceAll(data.body, oldModule, newModule)]

\* A plausible slip: only vendor is pruned.
SpecialDirsVendorOnly == { VendorName }

\* The directories the text passes (rewriteExtraFiles, Variables) and the
\* path collection of RenamePaths do not descend into.
SpecialDirs == { VendorName, GitName }

\* rewriteExtraFiles, the callback over the walk.
RECURSIVE RewriteExtraFilesFrom(_, _, _, _, _, _)
RewriteExtraFilesFrom(acc, paths, dir, oldModule, newModule, patternSet) ==
    IF paths = << >> THEN acc
    ELSE LET path == Head(paths)
             data == acc.tree[path]
             newData == RewriteTextFile(data, oldModule, newModule)
             rest == Tail(paths)
         IN  IF data.kind = "dir" \/ ~MatchesFilePattern(Base(path), patternSet)
             THEN RewriteExtraFilesFrom(acc, rest, dir, oldModule, newModule,
                                        patternSet)
             ELSE IF newData = data
             THEN RewriteExtraFilesFrom(acc, rest, dir, oldModule, newModule,
                                        patternSet)
             ELSE RewriteExtraFilesFrom(
                      Result([acc.tree EXCEPT ![path] = newData],
                             Append(acc.list, Rel(dir, path)), "nil",
                             Append(acc.writes, path), acc.log),
                      rest, dir, oldModule, newModule, patternSet)

RewriteExtraFiles(tree, dir, oldModule, newModule, patterns) ==
    RewriteExtraFilesFrom(Result(tree, << >>, "nil", << >>, << >>),
                          WalkFrom(tree, dir, SpecialDirs),
                          dir, oldModule, newModule,
                          ParseFilePatterns(patterns))

\* A plausible slip: Module goes on although go.mod declares the new module.
SameModuleNever(oldModule, newModule) == FALSE

\* if oldModule == newModule { return nil, nil }
SameModuleReturns(oldModule, newModule) == oldModule = newModule

\* Module: go.mod is read and, unless it already declares newModule,
\* rewritten; then the imports of the .go files; then, with extra patterns,
\* the matching files as text.
Module(tree, dir, newModule, extraExtensions) ==
    LET goModPath == Append(dir, GoModName)
        unchanged(err) == Result(tree, << >>, err, << >>, << >>)
    IN  IF goModPath \notin DOMAIN tree \/ tree[goModPath].kind # "file"
        THEN unchanged("reading go.mod")
        ELSE
        LET oldModule == ModulePathOf(tree[goModPath])
            t1 == [tree EXCEPT ![goModPath].body = GoModText(newModule)]
            go == RewriteGoFiles(t1, dir, oldModule, newModule)
            extra == RewriteExtraFiles(go.tree, dir, oldModule, newModule,
                                       extraExtensions)
        IN  IF SameModuleReturns(oldModule, newModule) THEN unchanged("nil")
            ELSE IF go.err # "nil"
            THEN Result(go.tree, << >>, "rewriting imports",
                        <<goModPath>> \o go.writes, << >>)
            ELSE IF Len(extraExtensions) > 0
            THEN Result(extra.tree, <<<<GoModName>>>> \o go.list \o extra.list,
                        "nil", <<goModPath>> \o go.writes \o extra.writes,
                        << >>)
            ELSE Result(go.tree, <<<<GoModName>>>> \o go.list, "nil",
                        <<goModPath>> \o go.writes, << >>)

(***************************************************************************)
(* internal/rewrite/variables.go                                           *)
(***************************************************************************)

\* placeholder := "__" + key + "__"
Placeholder(key) == <<"_", "_">> \o key \o <<"_", "_">>

\* for key, value := range vars { s = ReplaceAll(s, placeholder, value) },
\* with the keys taken in the given order.
RECURSIVE ReplaceVariables(_, _, _)
ReplaceVariables(s, tvars, order) ==
    IF order = << >> THEN s
    ELSE ReplaceVariables(
             ReplaceAll(s, Placeholder(Head(order)), tvars[Head(order)]),
             tvars, Tail(order))

\* replaceVariablesInFile, the replacement over the bytes of one file.
ReplaceVariablesInData(data, tvars, order) ==
    [data EXCEPT
        !.imports = [i \in DOMAIN data.imports |->
                        ReplaceVariables(data.imports[i], tvars, order)],
        !.body = ReplaceVariables(data.body, tvars, order)]

\* The pattern set of Variables: the extra patterns and "go".
VariablesPatternSet(extraPatterns) ==
    ParseFilePatterns(extraPatterns) \cup { <<"g", "o">> }

\* A plausible slip: every matching file is written back and reported, also
\* when the replacement left it as it was.
FileUnchangedNever(data, newData) == FALSE

\* if bytes.Equal(data, newData) { return false, nil }
FileUnchanged(data, newData) == data = newData

\* Variables, the callback over the walk. The key order of each file's loop
\* is whatever the map iteration gives, so the outcomes form a set.
RECURSIVE VariablesFrom(_, _, _, _, _)
VariablesFrom(acc, paths, dir, tvars, patternSet) ==
    IF paths = << >> THEN { acc }
    ELSE LET path == Head(paths)
             data == acc.tree[path]
             rest == Tail(paths)
         IN  IF data.kind = "dir" \/ ~MatchesFilePattern(Base(path), patternSet)
             THEN VariablesFrom(acc, rest, dir, tvars, patternSet)
             ELSE UNION {
                 LET newData == ReplaceVariablesInData(data, tvars, order)
                 IN  IF FileUnchanged(data, newData)
                     THEN VariablesFrom(acc, rest, dir, tvars, patternSet)
                     ELSE VariablesFrom(
                              Result([acc.tree EXCEPT ![path] = newData],
                                     Append(acc.list, Rel(dir, path)), "nil",
                                     Append(acc.writes, path), acc.log),
                              rest, dir, tvars, patternSet)
                 : order \in Orders(DOMAIN tvars) }

\* Variables: the set of outcomes it can have on a tree.
Variables(tree, dir, tvars, extraPatterns) ==
    IF DOMAIN tvars = {} THEN { Result(tree, << >>, "nil", << >>, << >>) }
    ELSE IF dir \notin DOMAIN tree
    THEN { Result(tree, << >>, "lstat", << >>, << >>) }
    ELSE VariablesFrom(Result(tree, << >>, "nil", << >>, << >>),
                       WalkFrom(tree, dir, SpecialDirs), dir, tvars,
                       VariablesPatternSet(extraPatterns))

(***************************************************************************)
(* internal/rewrite/paths.go                                               *)
(***************************************************************************)

\* The parts of a string between its path separators.
RECURSIVE SplitSlash(_)
SplitSlash(s) ==
    IF \A i \in 1..Len(s) : s[i] # "/" THEN <<s>>
    ELSE LET i == CHOOSE k \in 1..Len(s) :
                      s[k] = "/" /\ \A j \in 1..(k - 1) : s[j] # "/"
         IN  <<SubSeq(s, 1, i - 1)>> \o SplitSlash(SubSeq(s, i + 1, Len(s)))

\* filepath.Join(dir, name): the result is cleaned, so empty parts and "."
\* vanish and ".." steps up.
RECURSIVE JoinParts(_, _)
JoinParts(dir, parts) ==
    IF parts = << >> THEN dir
    ELSE IF Head(parts) = << >> \/ Head(parts) = <<".">>
    THEN JoinParts(dir, Tail(parts))
    ELSE IF Head(parts) = <<".", ".">>
    THEN JoinParts(IF dir = << >> THEN dir ELSE Dir(dir), Tail(parts))
    ELSE JoinParts(Append(dir, Head(parts)), Tail(parts))

Join(dir, name) == JoinParts(dir, SplitSlash(name))

\* os.Rename on Unix. The directory the root lies in is the path << >>; it
\* exists and holds nothing but the root. A new path that is an existing
\* directory is refused (EISDIR for a file, ENOTEMPTY for a directory)
\* unless it is empty and a directory comes to replace it; an existing file
\* is replaced by a file and refuses a directory; otherwise the entry moves
\* with all below it.
IsDir(tree, path) ==
    path = << >> \/ (path \in DOMAIN tree /\ tree[path].kind = "dir")

OsRename(tree, oldpath, newpath) ==
    LET moved == { p \in DOMAIN tree : p = oldpath \/ IsUnder(p, oldpath) }
        target(p) == newpath \o Rel(oldpath, p)
        kept == (DOMAIN tree \ moved) \ { newpath }
    IN  IF oldpath \notin DOMAIN tree THEN [err |-> "ENOENT", tree |-> tree]
        ELSE IF newpath = << >> THEN [err |-> "EEXIST", tree |-> tree]
        ELSE IF IsDir(tree, newpath) /\ tree[oldpath].kind # "dir"
        THEN [err |-> "EISDIR", tree |-> tree]
        ELSE IF IsDir(tree, newpath)
                /\ \E q \in DOMAIN tree : IsUnder(q, newpath)
        THEN [err |-> "ENOTEMPTY", tree |-> tree]
        ELSE IF ~IsDir(tree, Dir(newpath))
        THEN [err |-> "ENOENT", tree |-> tree]
        ELSE IF IsUnder(newpath, oldpath) THEN [err |-> "EINVAL", tree |-> tree]
        ELSE IF /\ newpath \in DOMAIN tree
                /\ tree[newpath].kind # "dir"
                /\ tree[oldpath].kind = "dir"
        THEN [err |-> "ENOTDIR", tree |-> tree]
        ELSE [err |-> "nil",
              tree |-> [p \in kept \cup { target(q) : q \in moved } |->
                           IF p \in kept THEN tree[p]
                           ELSE tree[CHOOSE q \in moved : target(q) = p]]]

\* collectPathsToRename, the callback over the walk: the new name of an
\* entry is its name with the placeholders of all keys replaced, in the
\* order the map iteration gives for that entry; an entry whose name
\* changes is recorded. The outcomes form a set of maps.
RECURSIVE CollectFrom(_, _, _)
CollectFrom(renames, paths, tvars) ==
    IF paths = << >> THEN { renames }
    ELSE UNION {
        LET path == Head(paths)
            newName == ReplaceVariables(Base(path), tvars, order)
        IN  IF newName # Base(path)
            THEN CollectFrom(renames @@ (path :> Join(Dir(path), newName)),
                             Tail(paths), tvars)
            ELSE CollectFrom(renames, Tail(paths), tvars)
        : order \in Orders(DOMAIN tvars) }

CollectPathsToRename(tree, dir, tvars) ==
    CollectFrom(<< >>, WalkFrom(tree, dir, SpecialDirs), tvars)

\* The paths in any order, as the iteration over the map gives them.
Unsorted(paths) == Orders(paths)

\* sort.Slice by the number of separators, most first: every order of the
\* paths in which no path comes before a deeper one.
SortedByDepth(paths) ==
    { seq \in Orders(paths) :
        \A i, j \in 1..Len(seq) : i < j => Len(seq[i]) >= Len(seq[j]) }

\* A path as the string the code holds: its names with a separator between
\* them.
RECURSIVE PathString(_)
PathString(path) ==
    IF path = << >> THEN << >>
    ELSE IF Len(path) = 1 THEN path[1]
    ELSE path[1] \o <<"/">> \o PathString(Tail(path))

\* filepath.Rel(dir, path) as a string: ".." for every name of dir after
\* the common start of the two, then the rest of path; "." for dir itself.
CommonStart(dir, path) ==
    CHOOSE k \in 0..Len(dir) :
        /\ k <= Len(path)
        /\ SubSeq(dir, 1, k) = SubSeq(path, 1, k)
        /\ \A m \in (k + 1)..Len(dir) :
              m > Len(path) \/ SubSeq(dir, 1, m) # SubSeq(path, 1, m)

RelString(dir, path) ==
    LET k == CommonStart(dir, path)
        names == [i \in 1..(Len(dir) - k) |-> <<".", ".">>]
                     \o SubSeq(path, k + 1, Len(path))
    IN  IF names = << >> THEN <<".">> ELSE PathString(names)

\* The separator of an entry of the returned list: a space, the arrow (one
\* character here) and a space.
Arrow == <<" ", "arrow", " ">>

\* oldRel + " → " + newRel
FormatRename(dir, oldPath, newPath) ==
    RelString(dir, oldPath) \o Arrow \o RelString(dir, newPath)

\* strings.Split(rename, " → "): the parts between the separators.
RECURSIVE SplitArrow(_)
SplitArrow(s) ==
    IF ~Contains(s, Arrow) THEN <<s>>
    ELSE LET i == CHOOSE k \in 1..Len(s) :
                      /\ HasPrefix(SubSeq(s, k, Len(s)), Arrow)
                      /\ \A j \in 1..(k - 1) :
                            ~HasPrefix(SubSeq(s, j, Len(s)), Arrow)
         IN  <<SubSeq(s, 1, i - 1)>>
                 \o SplitArrow(SubSeq(s, i + Len(Arrow), Len(s)))

\* A remap step that leaves every path as it is.
UpdatePathNever(path, renamedPaths, baseDir) == path

\* updatePathWithRenames: each rename already applied, in order, replaces
\* its old path where it is the path or a directory above it. An entry of
\* the list that does not split in two is passed over.
RECURSIVE UpdatePathWithRenames(_, _, _)
UpdatePathWithRenames(path, renamedPaths, baseDir) ==
    IF renamedPaths = << >> THEN path
    ELSE LET parts == SplitArrow(Head(renamedPaths))
         IN  IF Len(parts) # 2
             THEN UpdatePathWithRenames(path, Tail(renamedPaths), baseDir)
             ELSE LET oldAbs == Join(baseDir, parts[1])
                      newAbs == Join(baseDir, parts[2])
                  IN  UpdatePathWithRenames(
                          IF IsUnder(path, oldAbs)
                          THEN newAbs \o Rel(oldAbs, path)
                          ELSE IF path = oldAbs THEN newAbs
                          ELSE path,
                          Tail(renamedPaths), baseDir)

\* A loop that goes on whatever os.Rename returns.
RenameErrIgnored(r) == FALSE

\* if err := os.Rename(oldPath, newPath); err != nil
RenameErr(r) == r.err # "nil"

\* RenamePaths, phase 2: the loop over the sorted paths. The log keeps, for
\* every os.Rename issued, the collected pair, the pair it was called with,
\* whether the old path existed then, and its result.
RECURSIVE ApplyRenames(_, _, _, _)
ApplyRenames(acc, paths, renames, dir) ==
    IF paths = << >> THEN acc
    ELSE LET oldPath == UpdatePathWithRenames(Head(paths), acc.list, dir)
             newPath == UpdatePathWithRenames(renames[Head(paths)], acc.list,
                                              dir)
             r == OsRename(acc.tree, oldPath, newPath)
             attempt == [from |-> Head(paths), to |-> renames[Head(paths)],
                         old |-> oldPath, new |-> newPath,
                         existed |-> oldPath \in DOMAIN acc.tree,
                         err |-> r.err]
         IN  IF RenameErr(r)
             THEN Result(acc.tree, << >>, "renaming", << >>,
                         Append(acc.log, attempt))
             ELSE ApplyRenames(
                      Result(r.tree,
                             Append(acc.list,
                                    FormatRename(dir, oldPath, newPath)),
                             "nil", << >>, Append(acc.log, attempt)),
                      Tail(paths), renames, dir)

\* RenamePaths: the set of outcomes it can have on a tree.
RenamePaths(tree, dir, tvars) ==
    IF DOMAIN tvars = {} THEN { Result(tree, << >>, "nil", << >>, << >>) }
    ELSE IF dir \notin DOMAIN tree
    THEN { Result(tree, << >>, "collecting paths", << >>, << >>) }
    ELSE UNION {
        IF DOMAIN renames = {}
        THEN { Result(tree, << >>, "nil", << >>, << >>) }
        ELSE { ApplyRenames(Result(tree, << >>, "nil", << >>, << >>),
                            paths, renames, dir)
               : paths \in SortedByDepth(DOMAIN renames) }
        : renames \in CollectPathsToRename(tree, dir, tvars) }

(***************************************************************************)
(* internal/source/source.go: GitSource                                    *)
(***************************************************************************)

\* plumbing.NewTagReferenceName, plumbing.NewBranchReferenceName.
RefsTagsPrefix == <<"r", "e", "f", "s", "/", "t", "a", "g", "s", "/">>
RefsHeadsPrefix == <<"r", "e", "f", "s", "/", "h", "e", "a", "d", "s", "/">>
NewTagReferenceName(name) == RefsTagsPrefix \o name
NewBranchReferenceName(name) == RefsHeadsPrefix \o name

\* plumbing.NewHash: the bytes that hex.DecodeString gives before the first
\* pair that is not hexadecimal, copied into a hash that is otherwise zero.
HexDigits ==
    <<"0", "1", "2", "3", "4", "5", "6", "7", "8", "9",
      "a", "b", "c", "d", "e", "f">>
UpperHexDigits == <<"A", "B", "C", "D", "E", "F">>
NotHex == 16

HexValue(c) ==
    IF \E i \in 1..Len(HexDigits) : HexDigits[i] = c
    THEN (CHOOSE i \in 1..Len(HexDigits) : HexDigits[i] = c) - 1
    ELSE IF \E i \in 1..Len(UpperHexDigits) : UpperHexDigits[i] = c
    THEN (CHOOSE i \in 1..Len(UpperHexDigits) : UpperHexDigits[i] = c) + 9
    ELSE NotHex

RECURSIVE HexDecode(_)
HexDecode(s) ==
    IF Len(s) < 2 THEN << >>
    ELSE IF HexValue(s[1]) = NotHex \/ HexValue(s[2]) = NotHex THEN << >>
    ELSE <<HexValue(s[1]) * 16 + HexValue(s[2])>>
             \o HexDecode(SubSeq(s, 3, Len(s)))

HashSize == 20

NewHash(s) ==
    LET b == HexDecode(s)
    IN  [i \in 1..HashSize |-> IF i <= Len(b) THEN b[i] ELSE 0]

ZeroHash == [i \in 1..HashSize |-> 0]

\* git.CloneOptions, the fields Fetch sets besides the URL.
CloneOptions(depth, singleBranch, referenceName) ==
    [Depth |-> depth, SingleBranch |-> singleBranch,
     ReferenceName |-> referenceName]

\* A plausible slip: the clone that is to be checked out at a revision is
\* shallow.
FullCloneShallow == CloneOptions(1, FALSE, << >>)

\* The options as Fetch creates them: the URL and nothing else.
FullClone == CloneOptions(0, FALSE, << >>)

\* A call on the cloner, the lister, the repository or the file system.
GitCall(call, cloneOpts, hash) ==
    [call |-> call, opts |-> cloneOpts, hash |-> hash]

\* resolveRefType: the first reference of the list that is the tag or the
\* branch of that name decides; a failed listing is unknown.
RECURSIVE FirstRefType(_, _, _)
FirstRefType(refs, tagRef, branchRef) ==
    IF refs = << >> THEN "refTypeUnknown"
    ELSE IF Head(refs) = tagRef THEN "refTypeTag"
    ELSE IF Head(refs) = branchRef THEN "refTypeBranch"
    ELSE FirstRefType(Tail(refs), tagRef, branchRef)

ResolveRefType(g) ==
    IF g.listFails THEN "refTypeUnknown"
    ELSE FirstRefType(g.refs, NewTagReferenceName(g.version),
                      NewBranchReferenceName(g.version))

\* A plausible slip: the result of os.RemoveAll is dropped.
RemoveGitDirSwallowed(g, calls) ==
    [calls |-> Append(calls, GitCall("RemoveAll", FullClone, ZeroHash)),
     err |-> "nil"]

\* removeGitDir.
RemoveGitDir(g, calls) ==
    [calls |-> Append(calls, GitCall("RemoveAll", FullClone, ZeroHash)),
     err |-> IF g.removeFails THEN "removing .git directory" ELSE "nil"]

\* PlainCloneContext and what follows it when the reference is known.
CloneAndRemove(g, calls, cloneOpts) ==
    LET cloned == Append(calls, GitCall("PlainCloneContext", cloneOpts, ZeroHash))
    IN  IF g.cloneFails THEN [calls |-> cloned, err |-> "cloning repository"]
        ELSE RemoveGitDir(g, cloned)

\* The case refTypeUnknown: a clone, the work tree, a checkout of the hash.
CloneAndCheckout(g, calls) ==
    LET cloned == Append(calls, GitCall("PlainCloneContext", FullClone, ZeroHash))
        asked == Append(cloned, GitCall("Worktree", FullClone, ZeroHash))
        checked == Append(asked, GitCall("Checkout", FullClone, NewHash(g.version)))
    IN  IF g.cloneFails THEN [calls |-> cloned, err |-> "cloning repository"]
        ELSE IF g.worktreeFails THEN [calls |-> asked, err |-> "getting worktree"]
        ELSE IF g.checkoutFails THEN [calls |-> checked, err |-> "checking out"]
        ELSE RemoveGitDir(g, checked)

\* GitSource.Fetch: the calls it makes and the error it returns.
GitSourceFetch(g) ==
    IF g.version = << >>
    THEN CloneAndRemove(g, << >>, CloneOptions(1, FALSE, << >>))
    ELSE LET listed == << GitCall("List", FullClone, ZeroHash) >>
             refType == ResolveRefType(g)
         IN  IF refType = "refTypeTag"
             THEN CloneAndRemove(g, listed,
                      CloneOptions(1, TRUE, NewTagReferenceName(g.version)))
             ELSE IF refType = "refTypeBranch"
             THEN CloneAndRemove(g, listed,
                      CloneOptions(1, TRUE, NewBranchReferenceName(g.version)))
             ELSE CloneAndCheckout(g, listed)

(***************************************************************************)
(* cmd/gohatch/main.go: run and executeScaffold                            *)
(***************************************************************************)

\* The order in which executeScaffold calls its stages.
StageOrder ==
    << "validateDirectory", "fetchTemplate", "validateGoMod", "renamePaths",
       "rewriteModule", "replaceVariables", "initGitRepo" >>

DstStates == {"absent", "empty", "nonempty", "notdir"}

\* The command line (flags, arguments) and the facts of the environment the
\* run meets: whether the source spec parses, whether the fetched template
\* holds a go.mod, whether the tree still or newly holds one at its root
\* once RenamePaths has renamed its entries, whether that go.mod already
\* declares the new module.
Options ==
    [ argsOK : BOOLEAN, parseOK : BOOLEAN, dryRun : BOOLEAN, force : BOOLEAN,
      noGitInit : BOOLEAN, hasGoMod : BOOLEAN, goModAfterRename : BOOLEAN,
      sameModule : BOOLEAN, dst0 : DstStates ]

\* An I/O step of a stage either works or fails.
IOResults == {"ok", "fail"}

ScaffoldIdle ==
    /\ pc = "idle"
    /\ opts = [ argsOK |-> TRUE, parseOK |-> TRUE, dryRun |-> FALSE,
                force |-> FALSE, noGitInit |-> FALSE, hasGoMod |-> TRUE,
                goModAfterRename |-> TRUE, sameModule |-> FALSE,
                dst0 |-> "absent" ]
    /\ dst = "absent"
    /\ started = << >>
    /\ libCalls = << >>
    /\ returned = << >>
    /\ runErr = "none"

Finish(err) ==
    /\ pc' = "done"
    /\ runErr' = err

\* After a stage returned nil, executeScaffold goes on to this position.
AfterStage(stage) ==
    CASE stage = "validateDirectory" -> "fetchTemplate"
      [] stage = "fetchTemplate" -> "validateGoMod"
      [] stage = "validateGoMod" -> "renamePaths"
      [] stage = "renamePaths" -> "rewriteModule"
      [] stage = "rewriteModule" -> "replaceVariables"
      [] stage = "replaceVariables" ->
            IF opts.noGitInit THEN "created" ELSE "initGitRepo"
      [] stage = "initGitRepo" -> "created"

\* A plausible slip: the stage's error is dropped and the next stage runs.
StageReturnIgnoringError(stage, err) ==
    /\ returned' = Append(returned, err)
    /\ pc' = AfterStage(stage)
    /\ runErr' = runErr

\* if err := stage(); err != nil { return err }, as executeScaffold has it
\* after every stage.
StageReturn(stage, err) ==
    /\ returned' = Append(returned, err)
    /\ IF err # "nil"
       THEN Finish(err)
       ELSE /\ pc' = AfterStage(stage)
            /\ runErr' = runErr

\* A run that never takes the dry-run branch.
DryRunNever == FALSE

\* if dryRun { return runDryRun(src) }
DryRunAsked == opts.dryRun

\* run: missing arguments show the help; then the source is parsed; dry-run
\* only prints; otherwise executeScaffold starts.
Run ==
    /\ pc = "run"
    /\ UNCHANGED <<opts, dst, started, returned>>
    /\ IF ~opts.argsOK
       THEN /\ Finish("nil")
            /\ libCalls' = Append(libCalls, "ShowAppHelp")
       ELSE IF ~opts.parseOK
       THEN /\ Finish("parsing source")
            /\ libCalls' = Append(libCalls, "Parse")
       ELSE IF DryRunAsked
       THEN /\ Finish("nil")
            /\ libCalls' = libCalls \o <<"Parse", "runDryRun">>
       ELSE /\ pc' = "validateDirectory"
            /\ runErr' = runErr
            /\ libCalls' = Append(libCalls, "Parse")

\* validateDirectory: os.Stat, then os.ReadDir of an existing directory.
ValidateDirectory ==
    /\ pc = "validateDirectory"
    /\ started' = Append(started, "validateDirectory")
    /\ UNCHANGED <<opts, dst, libCalls>>
    /\ \E stat \in IOResults, readDir \in IOResults :
          StageReturn("validateDirectory",
              IF dst = "absent" THEN "nil"
              ELSE IF stat = "fail" THEN "checking directory"
              ELSE IF dst = "notdir" THEN "exists and is not a directory"
              ELSE IF readDir = "fail" THEN "reading directory"
              ELSE IF dst = "nonempty" THEN "is not empty"
              ELSE "nil")

\* fetchTemplate: src.Fetch into the directory, then os.RemoveAll of its .git.
\* A Fetch that fails may already have created part of the destination.
FetchTemplate ==
    /\ pc = "fetchTemplate"
    /\ started' = Append(started, "fetchTemplate")
    /\ UNCHANGED opts
    /\ \E fetch \in IOResults, removeGit \in IOResults :
          IF fetch = "fail"
          THEN /\ libCalls' = Append(libCalls, "Fetch")
               /\ dst' \in {dst, "nonempty"}
               /\ StageReturn("fetchTemplate", "fetching template")
          ELSE /\ libCalls' = libCalls \o <<"Fetch", "RemoveAll(.git)">>
               /\ dst' = "nonempty"
               /\ StageReturn("fetchTemplate",
                      IF removeGit = "fail" THEN "removing template .git"
                      ELSE "nil")

\* validateGoMod: without go.mod and without --force the destination is
\* removed (the result of os.RemoveAll is discarded) and an error returned.
ValidateGoMod ==
    /\ pc = "validateGoMod"
    /\ started' = Append(started, "validateGoMod")
    /\ UNCHANGED opts
    /\ IF opts.hasGoMod
       THEN /\ UNCHANGED <<dst, libCalls>>
            /\ StageReturn("validateGoMod", "nil")
       ELSE IF ~opts.force
       THEN /\ libCalls' = Append(libCalls, "RemoveAll(directory)")
            /\ \E removeAll \in IOResults :
                  dst' = IF removeAll = "ok" THEN "absent" ELSE dst
            /\ StageReturn("validateGoMod", "template has no go.mod")
       ELSE /\ UNCHANGED <<dst, libCalls>>
            /\ StageReturn("validateGoMod", "nil")

\* renamePaths: vars comes from parseVariables and always holds ProjectName,
\* so rewrite.RenamePaths is always called.
RenamePathsStage ==
    /\ pc = "renamePaths"
    /\ started' = Append(started, "renamePaths")
    /\ libCalls' = Append(libCalls, "RenamePaths")
    /\ UNCHANGED <<opts, dst>>
    /\ \E r \in IOResults :
          StageReturn("renamePaths",
              IF r = "fail" THEN "renaming paths" ELSE "nil")

\* A plausible slip: rewriteModule does not ask for the go.mod.
HasGoModAlways == TRUE

\* rewrite.HasGoMod(directory) as rewriteModule asks it, on the tree that
\* RenamePaths has left.
HasGoModAtRewrite == opts.goModAfterRename

\* rewriteModule: nothing without go.mod, nothing when go.mod already
\* declares the module, otherwise rewrite.Module.
RewriteModuleStage ==
    /\ pc = "rewriteModule"
    /\ started' = Append(started, "rewriteModule")
    /\ UNCHANGED <<opts, dst>>
    /\ IF ~HasGoModAtRewrite
       THEN /\ libCalls' = libCalls
            /\ StageReturn("rewriteModule", "nil")
       ELSE \E read \in IOResults, r \in IOResults :
               IF read = "fail"
               THEN /\ libCalls' = Append(libCalls, "ReadModulePath")
                    /\ StageReturn("rewriteModule", "reading module path")
               ELSE IF opts.sameModule
               THEN /\ libCalls' = Append(libCalls, "ReadModulePath")
                    /\ StageReturn("rewriteModule", "nil")
               ELSE /\ libCalls' = libCalls \o <<"ReadModulePath", "Module">>
                    /\ StageReturn("rewriteModule",
                           IF r = "fail" THEN "rewriting module" ELSE "nil")

\* replaceVariables: rewrite.Variables with the same vars.
ReplaceVariablesStage ==
    /\ pc = "replaceVariables"
    /\ started' = Append(started, "replaceVariables")
    /\ libCalls' = Append(libCalls, "Variables")
    /\ UNCHANGED <<opts, dst>>
    /\ \E r \in IOResults :
          StageReturn("replaceVariables",
              IF r = "fail" THEN "replacing variables" ELSE "nil")

\* initGitRepo, only reached when --no-git-init is not given.
InitGitRepoStage ==
    /\ pc = "initGitRepo"
    /\ started' = Append(started, "initGitRepo")
    /\ libCalls' = Append(libCalls, "PlainInit")
    /\ UNCHANGED <<opts, dst>>
    /\ \E r \in IOResults :
          StageReturn("initGitRepo",
              IF r = "fail" THEN "initializing git repository" ELSE "nil")

\* fmt.Printf("Created ..."); return nil
Created ==
    /\ pc = "created"
    /\ Finish("nil")
    /\ UNCHANGED <<opts, dst, started, libCalls, returned>>

FetchIdle ==
    /\ git = [ version |-> << >>, refs |-> << >>, listFails |-> FALSE,
               cloneFails |-> FALSE, worktreeFails |-> FALSE,
               checkoutFails |-> FALSE, removeFails |-> FALSE ]
    /\ gitCalls = << >>
    /\ gitErr = "none"

(***************************************************************************)
(* The rewrite engine at work: trees, arguments and calls                  *)
(***************************************************************************)

\* How many calls one behaviour makes, and how many entries are put into a
\* tree besides the directories they lie in.
MaxCalls == 2
MaxEntries == 3

\* Module paths: go.mod declares m or n; m2 shares its first character with m.
ModM == <<"m">>
ModN == <<"n">>
ModM2 == <<"m", "2">>

\* An import declaration as written: the path between two quote characters.
Lit(quote, path) == <<quote>> \o path \o <<quote>>

KeyA == <<"A">>
KeyB == <<"B">>

\* Go files: one importing m/p and m2/x whose text holds the placeholders of
\* A and B sharing two underscores; one importing m and, as a raw string
\* literal, m/p, with no placeholder; one importing something else, with
\* the placeholder of A; one that does not parse.
GoFileTwoImports ==
    File(<< Lit(DQ, <<"m", "/", "p">>), Lit(DQ, <<"m", "2", "/", "x">>) >>,
         Placeholder(KeyA) \o <<"B", "_", "_">>, FALSE)
GoFileRawImport ==
    File(<< Lit(DQ, ModM), Lit(BQ, <<"m", "/", "p">>) >>, <<"x">>, FALSE)
GoFileOtherImport ==
    File(<< Lit(DQ, <<"o">>) >>, Placeholder(KeyA), FALSE)
GoFileBad ==
    File(<< Lit(DQ, <<"m", "/", "p">>) >>, <<"x">>, TRUE)

\* Text files: one naming the module m and the placeholder of A, one plain.
TextFileBoth == File(<< >>, <<"m", "/">> \o Placeholder(KeyA), FALSE)
TextFilePlain == File(<< >>, <<"x">>, FALSE)

RootName == <<"r">>

\* The entries a tree of the content family may hold, by path below the
\* root, each with the contents it may have.
ContentSlots ==
    ( <<GoModName>>
        :> { File(<< >>, GoModText(ModM), FALSE),
             File(<< >>, GoModText(ModN), FALSE) } )
    @@ ( << <<"a", ".", "g", "o">> >>
        :> { GoFileTwoImports, GoFileRawImport, GoFileOtherImport, GoFileBad } )
    @@ ( << <<"p">>, <<"b", ".", "g", "o">> >>
        :> { GoFileTwoImports, GoFileOtherImport, GoFileBad } )
    @@ ( << VendorName, <<"v", ".", "g", "o">> >> :> { GoFileTwoImports } )
    @@ ( << GitName, <<"h", ".", "g", "o">> >> :> { GoFileTwoImports } )
    @@ ( << <<"c", ".", "t", "o", "m", "l">> >>
        :> { TextFileBoth, TextFilePlain } )

\* The tree with root directory rootName that holds the chosen entries and
\* the directories they lie in.
Prefixes(path) == { SubSeq(path, 1, k) : k \in 0..(Len(path) - 1) }

TreeOf(rootName, chosen) ==
    LET dirs == { <<rootName>> \o q :
                    q \in UNION { Prefixes(p) : p \in DOMAIN chosen } }
                 \cup { <<rootName>> }
        files == { <<rootName>> \o p : p \in DOMAIN chosen }
    IN  [ path \in dirs \cup files |->
            IF path \in files THEN chosen[Rel(<<rootName>>, path)]
            ELSE DirEntry ]

\* Every way to pick at most MaxEntries slots and a content for each.
Choices(slots) ==
    UNION { { f \in [S -> UNION { slots[p] : p \in S }] :
                \A p \in S : f[p] \in slots[p] }
            : S \in { T \in SUBSET DOMAIN slots : Cardinality(T) <= MaxEntries } }

\* Variable maps: none; one key; two keys; a value that is the placeholder
\* of another key; a value that holds the key's own placeholder.
NoVars == << >>
VarsA == (KeyA :> <<"x">>)
VarsAB == (KeyA :> <<"x">>) @@ (KeyB :> <<"y">>)
VarsChain == (KeyA :> Placeholder(KeyB)) @@ (KeyB :> <<"y">>)
VarsSelf == (KeyA :> <<"x">> \o Placeholder(KeyA))
VarMaps == { NoVars, VarsA, VarsAB, VarsChain, VarsSelf }

\* Extra patterns as given with -e: none; an extension with its dot; the
\* extensions of go.mod and of the Go files.
PatternLists ==
    { << >>, << <<".", "t", "o", "m", "l">> >>, << <<"m", "o", "d">>, <<"g", "o">> >> }

\* The arguments of a behaviour: the new module and the patterns vary with
\* one variable map, or the variable map and the patterns with one module.
ContentArgs ==
    { [dir |-> <<RootName>>, newModule |-> nm, patterns |-> ps, tvars |-> VarsA] :
        nm \in { ModM, ModN, ModM2 }, ps \in PatternLists }
    \cup
    { [dir |-> <<RootName>>, newModule |-> ModN, patterns |-> ps, tvars |-> tv] :
        tv \in VarMaps, ps \in PatternLists }

RewriteIdle ==
    /\ fs = TreeOf(RootName, << >>)
    /\ args = [dir |-> <<RootName>>, newModule |-> ModN, patterns |-> << >>,
               tvars |-> NoVars]
    /\ hist = << >>

\* The record of one call.
Call(op, before, r) ==
    [op |-> op, before |-> before, after |-> r.tree, list |-> r.list,
     err |-> r.err, writes |-> r.writes, log |-> r.log]

ModuleCall ==
    /\ Len(hist) < MaxCalls
    /\ LET r == Module(fs, args.dir, args.newModule, args.patterns)
       IN  /\ fs' = r.tree
           /\ hist' = Append(hist, Call("Module", fs, r))
    /\ UNCHANGED args

VariablesCall ==
    /\ Len(hist) < MaxCalls
    /\ \E r \in Variables(fs, args.dir, args.tvars, args.patterns) :
           /\ fs' = r.tree
           /\ hist' = Append(hist, Call("Variables", fs, r))
    /\ UNCHANGED args

RenamePathsCall ==
    /\ Len(hist) < MaxCalls
    /\ \E r \in RenamePaths(fs, args.dir, args.tvars) :
           /\ fs' = r.tree
           /\ hist' = Append(hist, Call("RenamePaths", fs, r))
    /\ UNCHANGED args

InitRewrite ==
    /\ ScaffoldIdle
    /\ FetchIdle
    /\ \E chosen \in Choices(ContentSlots) : fs = TreeOf(RootName, chosen)
    /\ args \in ContentArgs
    /\ hist = << >>

NextRewrite ==
    \/ ModuleCall /\ UNCHANGED <<scaffoldVars, fetchVars>>
    \/ VariablesCall /\ UNCHANGED <<scaffoldVars, fetchVars>>

SpecRewrite == InitRewrite /\ [][NextRewrite]_vars

(***************************************************************************)
(* Properties of Module                                                    *)
(***************************************************************************)

\* The import path an import declaration denotes: the literal without its
\* one pair of quote characters, double or back quotes alike.
Unquote(lit) == SubSeq(lit, 2, Len(lit) - 1)

\* A path lies under a directory of that name (the root included).
UnderDirNamed(path, name) == \E k \in 1..(Len(path) - 1) : path[k] = name

IsGoFile(tree, path) ==
    tree[path].kind = "file" /\ HasSuffix(Base(path), GoExt)

RefersTo(importPath, modulePath) ==
    importPath = modulePath \/ HasPrefix(importPath, modulePath \o <<"/">>)

GoModPath == Append(args.dir, GoModName)

\* The calls of Module that returned nil on a go.mod declaring a module other
\* than the new one.
RewritingCalls ==
    { i \in 1..Len(hist) :
        /\ hist[i].op = "Module"
        /\ hist[i].err = "nil"
        /\ GoModPath \in DOMAIN hist[i].before
        /\ ModulePathOf(hist[i].before[GoModPath]) # args.newModule }

\* What C2 says of one such call, of the imports written with one of the
\* given quote characters.
ModuleRewrote(h, quotes) ==
    LET oldModule == ModulePathOf(h.before[GoModPath])
        goFiles == { p \in DOMAIN h.before :
                        IsGoFile(h.before, p) /\ ~UnderDirNamed(p, VendorName) }
        counts(lit) == lit[1] \in quotes
        expected(lit) ==
            IF counts(lit) /\ RefersTo(Unquote(lit), oldModule)
            THEN args.newModule \o TrimPrefix(Unquote(lit), oldModule)
            ELSE Unquote(lit)
        hadMatch(p) ==
            \E k \in DOMAIN h.before[p].imports :
                /\ counts(h.before[p].imports[k])
                /\ RefersTo(Unquote(h.before[p].imports[k]), oldModule)
    IN  /\ ModulePathOf(h.after[GoModPath]) = args.newModule
        /\ \A p \in goFiles :
              /\ DOMAIN h.after[p].imports = DOMAIN h.before[p].imports
              /\ \A k \in DOMAIN h.before[p].imports :
                    counts(h.before[p].imports[k]) =>
                        Unquote(h.after[p].imports[k])
                            = expected(h.before[p].imports[k])
        /\ { h.list[k] : k \in 1..Len(h.list) }
              = { <<GoModName>> }
                  \cup { Rel(args.dir, p) : p \in { q \in goFiles : hadMatch(q) } }
        /\ \A j, k \in 1..Len(h.list) : h.list[j] = h.list[k] => j = k

\* C2: after Module(dir, new, nil) succeeded on a tree whose go.mod declared
\* old # new, go.mod declares new, every import of a .go file outside vendor
\* directories that is old or begins with old/ names new with the same
\* remainder, every other import is as it was, and the returned list is
\* go.mod and the .go files that had such an import, each once.
C2_ModuleRewritesImports ==
    \A i \in RewritingCalls :
        args.patterns = << >> => ModuleRewrote(hist[i], { DQ, BQ })

\* The same of the imports written between double quotes only: this much
\* Module does.
ModuleRewritesDoubleQuotedImports ==
    \A i \in RewritingCalls :
        args.patterns = << >> => ModuleRewrote(hist[i], { DQ })

\* A call of Module that returned nil and was followed by another call of
\* Module (with the same arguments, as every call of a behaviour has).
RepeatedModuleCalls ==
    { i \in 1..(Len(hist) - 1) :
        /\ hist[i].op = "Module" /\ hist[i].err = "nil"
        /\ hist[i + 1].op = "Module" }

SecondModuleIsNoOp(i) ==
    /\ hist[i + 1].err = "nil"
    /\ hist[i + 1].list = << >>
    /\ hist[i + 1].writes = << >>
    /\ hist[i + 1].after = hist[i + 1].before

\* C8: after Module(root, X, patterns) succeeded, a second
\* Module(root, X, patterns) returns an empty list and no error and writes
\* no file.
C8_ModuleIdempotent == \A i \in RepeatedModuleCalls : SecondModuleIsNoOp(i)

\* The same for pattern lists that do not match go.mod: this much Module
\* does.
ModuleIdempotentUnlessGoModMatches ==
    \A i \in RepeatedModuleCalls :
        ~MatchesFilePattern(GoModName, ParseFilePatterns(args.patterns))
            => SecondModuleIsNoOp(i)

(***************************************************************************)
(* Properties of Module and Variables on files                             *)
(***************************************************************************)

Files(tree) == { p \in DOMAIN tree : tree[p].kind = "file" }

ListedPaths(h) == { args.dir \o h.list[k] : k \in 1..Len(h.list) }
WrittenPaths(h) == { h.writes[k] : k \in 1..Len(h.writes) }

\* The texts of a file: each import declaration and the rest.
TextsOf(data) == { data.imports[k] : k \in DOMAIN data.imports } \cup { data.body }

\* C9: no file under a directory named vendor is modified, written or
\* reported by any call of Module (either pass, any extra patterns) or of
\* Variables.
C9_VendorUntouched ==
    \A i \in 1..Len(hist) :
        \A p \in Files(hist[i].before) :
            UnderDirNamed(p, VendorName) =>
                /\ p \in DOMAIN hist[i].after
                /\ hist[i].after[p] = hist[i].before[p]
                /\ p \notin WrittenPaths(hist[i])
                /\ p \notin ListedPaths(hist[i])

\* C9 witness: Module, with an extra pattern that matches .go files, and then
\* Variables have both rewritten files of a tree whose vendor directory
\* holds a .go file that imports the old module and holds a placeholder.
C9_Witness ==
    /\ Len(hist) = 2
    /\ hist[1].op = "Module" /\ Len(hist[1].writes) >= 2
    /\ hist[2].op = "Variables" /\ Len(hist[2].writes) >= 1
    /\ MatchesFilePattern(<<"v", ".", "g", "o">>, ParseFilePatterns(args.patterns))
    /\ \E p \in Files(hist[1].before) :
          /\ UnderDirNamed(p, VendorName)
          /\ \E k \in DOMAIN hist[1].before[p].imports :
                RefersTo(Unquote(hist[1].before[p].imports[k]),
                         ModulePathOf(hist[1].before[GoModPath]))
          /\ \E key \in DOMAIN args.tvars :
                Contains(hist[1].before[p].body, Placeholder(key))

\* A file holds no placeholder of any key.
NoPlaceholderIn(data, tvars) ==
    \A key \in DOMAIN tvars :
        \A t \in TextsOf(data) : ~Contains(t, Placeholder(key))

VariablesCalls == { i \in 1..Len(hist) : hist[i].op = "Variables" }

\* C10: Variables leaves a file that holds no placeholder of any key as it
\* was, unwritten and unlisted; and every listed path is a file matching the
\* patterns whose content changed.
C10_VariablesFrame ==
    \A i \in VariablesCalls :
        /\ \A p \in Files(hist[i].before) :
              NoPlaceholderIn(hist[i].before[p], args.tvars) =>
                  /\ hist[i].after[p] = hist[i].before[p]
                  /\ p \notin WrittenPaths(hist[i])
                  /\ p \notin ListedPaths(hist[i])
        /\ \A p \in ListedPaths(hist[i]) :
              /\ p \in Files(hist[i].before)
              /\ MatchesFilePattern(Base(p), VariablesPatternSet(args.patterns))
              /\ hist[i].after[p] # hist[i].before[p]

\* C10 witness: one call of Variables rewrote a file and left alone a
\* matching file that holds no placeholder.
C10_Witness ==
    \E i \in VariablesCalls :
        /\ hist[i].writes # << >>
        /\ \E p \in Files(hist[i].before) :
              /\ ~UnderDirNamed(p, VendorName) /\ ~UnderDirNamed(p, GitName)
              /\ MatchesFilePattern(Base(p), VariablesPatternSet(args.patterns))
              /\ NoPlaceholderIn(hist[i].before[p], args.tvars)

\* C6: what Variables makes of a file does not depend on the order in which
\* the keys are taken: every file it wrote holds what the replacement gives
\* in every key order.
C6_KeyOrderIrrelevant ==
    \A i \in VariablesCalls :
        \A p \in WrittenPaths(hist[i]) :
            \A order \in Orders(DOMAIN args.tvars) :
                hist[i].after[p]
                    = ReplaceVariablesInData(hist[i].before[p], args.tvars, order)

\* A call of RenamePaths or Variables that returned nil and was followed by
\* a call of the same operation (with the same arguments).
RepeatedCalls ==
    { i \in 1..(Len(hist) - 1) :
        /\ hist[i].op \in { "RenamePaths", "Variables" }
        /\ hist[i].err = "nil"
        /\ hist[i + 1].op = hist[i].op }

\* C7: a second run of RenamePaths or of Variables on the tree the first run
\* left renames nothing, writes nothing and returns an empty list.
C7_SecondRunIsNoOp ==
    \A i \in RepeatedCalls :
        /\ hist[i + 1].list = << >>
        /\ hist[i + 1].writes = << >>
        /\ hist[i + 1].log = << >>
        /\ hist[i + 1].after = hist[i + 1].before

(***************************************************************************)
(* RenamePaths at work                                                     *)
(***************************************************************************)

\* A file that holds the path it was created at, so that it can be told
\* from every other file wherever it ends.
Marked(rel) == File(<< >>, Flatten(rel), FALSE)

NameA == Placeholder(KeyA)
NameB == Placeholder(KeyB)
NameAB == Placeholder(KeyA) \o <<"B", "_", "_">>

\* The entries a tree of the rename family may hold: a directory and
\* entries nested under it that carry placeholders, an entry that lies where
\* a renamed one is to go, entries inside vendor and .git, a name in which
\* two placeholders share underscores, and plain names.
RenameSlots ==
    LET file(rel) == rel :> { Marked(rel) }
    IN  file(<< <<"a">>, NameA, NameA, <<"f", ".", "g", "o">> >>)
        @@ file(<< <<"a">>, NameA, NameB \o GoExt >>)
        @@ file(<< <<"a">>, NameA, <<"x">> >>)
        @@ ( << <<"a">>, <<"x">> >>
               :> { DirEntry, Marked(<< <<"a">>, <<"x">> >>) } )
        @@ file(<< VendorName, NameA \o GoExt >>)
        @@ file(<< GitName, NameA >>)
        @@ file(<< NameAB >>)
        @@ file(<< NameA >>)
        @@ file(<< NameB >>)
        @@ file(<< <<"y">> >>)

\* Values given with --var that are not names: one holding a separator and
\* the empty one.
VarsSlash == (KeyA :> <<"p", "/", "x">>)
VarsEmpty == (KeyA :> << >>)

RenameVarMaps == VarMaps \cup { VarsSlash, VarsEmpty }

RenameArgs ==
    { [dir |-> <<RootName>>, newModule |-> ModN, patterns |-> << >>,
       tvars |-> tv] : tv \in RenameVarMaps }

InitRename ==
    /\ ScaffoldIdle
    /\ FetchIdle
    /\ \E chosen \in Choices(RenameSlots) : fs = TreeOf(RootName, chosen)
    /\ args \in RenameArgs
    /\ hist = << >>

NextRename ==
    RenamePathsCall /\ UNCHANGED <<scaffoldVars, fetchVars>>

SpecRename == InitRename /\ [][NextRename]_vars

(***************************************************************************)
(* Properties of RenamePaths                                               *)
(***************************************************************************)

RenameCalls == { i \in 1..Len(hist) : hist[i].op = "RenamePaths" }

\* The names one name can become: its placeholders replaced in some order of
\* the keys.
SubstNames(name, tvars) ==
    { ReplaceVariables(name, tvars, order) : order \in Orders(DOMAIN tvars) }

HasPlaceholder(name, tvars) ==
    \E key \in DOMAIN tvars : Contains(name, Placeholder(key))

\* A path that is, or lies under, a directory named vendor or .git.
InSpecialDir(tree, path) ==
    \E k \in 1..Len(path) :
        /\ path[k] \in { VendorName, GitName }
        /\ tree[SubSeq(path, 1, k)].kind = "dir"

\* The paths obtained from a path by substituting the variables in each of
\* its segments below the root: in every segment, or only in those that
\* are not in a directory named vendor or .git.
RECURSIVE SubstitutedUpTo(_, _, _, _, _)
SubstitutedUpTo(tree, path, k, tvars, everywhere) ==
    IF k = 1 THEN { <<path[1]>> }
    ELSE { Append(d, n) :
             d \in SubstitutedUpTo(tree, path, k - 1, tvars, everywhere),
             n \in IF everywhere \/ ~InSpecialDir(tree, SubSeq(path, 1, k))
                   THEN SubstNames(path[k], tvars)
                   ELSE { path[k] } }

Substituted(tree, path, tvars, everywhere) ==
    SubstitutedUpTo(tree, path, Len(path), tvars, everywhere)

\* No two entries map to the same target.
DistinctTargets(tree, tvars, everywhere) ==
    \A p, q \in DOMAIN tree :
        p # q => Substituted(tree, p, tvars, everywhere)
                    \cap Substituted(tree, q, tvars, everywhere) = { }

\* A directory and an entry nested under it both carry placeholders.
NestedPlaceholders(tree, tvars) ==
    \E p, q \in DOMAIN tree :
        /\ IsUnder(q, p)
        /\ HasPlaceholder(Base(p), tvars)
        /\ HasPlaceholder(Base(q), tvars)

\* A name that one path segment can be.
ValidName(name) ==
    /\ name \notin { << >>, <<".">>, <<".", ".">> }
    /\ \A i \in 1..Len(name) : name[i] # "/"

ValidNames(tree, tvars) ==
    \A p \in DOMAIN tree :
        ~InSpecialDir(tree, p) =>
            \A n \in SubstNames(Base(p), tvars) : ValidName(n)

\* What a call of RenamePaths did: it succeeded, every entry ended at a
\* substituted path, every rename was issued on a path that existed, and
\* as many renames were reported as counted.
RenamedAll(h, tvars, everywhere, count) ==
    /\ h.err = "nil"
    /\ \A p \in DOMAIN h.before :
          \E q \in Substituted(h.before, p, tvars, everywhere) :
              q \in DOMAIN h.after /\ h.after[q] = h.before[p]
    /\ Cardinality(DOMAIN h.after) = Cardinality(DOMAIN h.before)
    /\ \A k \in 1..Len(h.log) : h.log[k].existed
    /\ Len(h.list) = count

FirstRename == { i \in RenameCalls : i = 1 }

MaxRefs == 3

\* Version markers: none, a name that a tag and a branch can both carry, a
\* name that only a branch carries, and the start of a revision hash.
VersionV1 == <<"v", "1">>
VersionM == <<"m">>
VersionHash == <<"a", "b">>
Versions == { << >>, VersionV1, VersionM, VersionHash }

HeadRef == <<"H", "E", "A", "D">>

RefNames ==
    { HeadRef, NewTagReferenceName(VersionV1),
      NewBranchReferenceName(VersionV1), NewBranchReferenceName(VersionM) }

\* The lists a remote can answer with: some of its references in any order.
RefLists ==
    UNION { Orders(S) : S \in { T \in SUBSET RefNames : Cardinality(T) <= MaxRefs } }

GitInputs ==
    [ version : Versions, refs : RefLists, listFails : BOOLEAN,
      cloneFails : BOOLEAN, worktreeFails : BOOLEAN,
      checkoutFails : BOOLEAN, removeFails : BOOLEAN ]

FetchGit ==
    /\ gitErr = "none"
    /\ LET r == GitSourceFetch(git)
       IN  /\ gitCalls' = r.calls
           /\ gitErr' = r.err
    /\ UNCHANGED git

InitFetch ==
    /\ ScaffoldIdle
    /\ RewriteIdle
    /\ git \in GitInputs
    /\ gitCalls = << >>
    /\ gitErr = "none"

NextFetch ==
    FetchGit /\ UNCHANGED <<scaffoldVars, rewriteVars>>

SpecFetch == InitFetch /\ [][NextFetch]_vars

(***************************************************************************)
(* Properties of GitSource.Fetch                                           *)
(***************************************************************************)

Listed(ref) ==
    /\ ~git.listFails
    /\ \E k \in 1..Len(git.refs) : git.refs[k] = ref

TagListed == Listed(NewTagReferenceName(git.version))
BranchListed == Listed(NewBranchReferenceName(git.version))

CallsOf(name) == SelectSeq(gitCalls, LAMBDA c : c.call = name)

TagClone == CloneOptions(1, TRUE, NewTagReferenceName(git.version))
BranchClone == CloneOptions(1, TRUE, NewBranchReferenceName(git.version))

\* The clone is followed by a checkout of the marker as a revision hash,
\* as far as the calls before it succeed.
CheckoutFollows ==
    (~git.cloneFails /\ ~git.worktreeFails)
        => /\ Len(CallsOf("Checkout")) = 1
           /\ CallsOf("Checkout")[1].hash = NewHash(git.version)
           /\ \E k \in 1..(Len(gitCalls) - 1) :
                 /\ gitCalls[k].call = "PlainCloneContext"
                 /\ \E j \in (k + 1)..Len(gitCalls) :
                       gitCalls[j].call = "Checkout"

C5_TagBeforeBranch ==
    (gitErr # "none" /\ git.version # << >> /\ TagListed /\ BranchListed)
        => CallsOf("PlainCloneContext")[1].opts = TagClone

\* The steps of Fetch that can fail, each with the flag that makes it fail
\* and the operation its error names; the message of a failed checkout
\* also holds the marker, which is git.version.
FetchSteps ==
    { [call |-> "PlainCloneContext", fails |-> git.cloneFails,
       names |-> "cloning repository"],
      [call |-> "Worktree", fails |-> git.worktreeFails,
       names |-> "getting worktree"],
      [call |-> "Checkout", fails |-> git.checkoutFails,
       names |-> "checking out"],
      [call |-> "RemoveAll", fails |-> git.removeFails,
       names |-> "removing .git directory"] }

\* C15: a step of Fetch that was made and failed makes Fetch return the
\* error that names it, never nil; after a failed clone neither a checkout
\* nor the removal of .git is attempted.
C15_FailuresAreNamed ==
    gitErr # "none" =>
        /\ \A step \in FetchSteps :
              (CallsOf(step.call) # << >> /\ step.fails)
                  => gitErr = step.names
        /\ git.cloneFails =>
              /\ CallsOf("Worktree") = << >>
              /\ CallsOf("Checkout") = << >>
              /\ CallsOf("RemoveAll") = << >>

\* The removal of .git failed after a clone and a checkout that succeeded.
C15_Witness ==
    /\ gitErr = "removing .git directory"
    /\ git.removeFails
    /\ CallsOf("Checkout") # << >>
    /\ CallsOf("RemoveAll") # << >>

(***************************************************************************)
(* internal/source/source.go: Parse                                        *)
(***************************************************************************)

\* strings.Index and strings.LastIndex of a character, counted from 1;
\* 0 where Go gives -1.
Index(s, c) ==
    IF \E i \in 1..Len(s) : s[i] = c
    THEN CHOOSE i \in 1..Len(s) : s[i] = c /\ \A j \in 1..(i - 1) : s[j] # c
    ELSE 0

LastIndex(s, c) ==
    IF \E i \in 1..Len(s) : s[i] = c
    THEN CHOOSE i \in 1..Len(s) :
             s[i] = c /\ \A j \in (i + 1)..Len(s) : s[j] # c
    ELSE 0

\* The split at an index that is given: input[:idx], input[idx+1:].
SplitAt(input, idx) ==
    IF idx # 0
    THEN [path |-> SubSeq(input, 1, idx - 1),
          version |-> SubSeq(input, idx + 1, Len(input))]
    ELSE [path |-> input, version |-> << >>]

\* A plausible slip: the split is at the first @.
SplitVersionAtFirst(input) == SplitAt(input, Index(input, "@"))

\* splitVersion.
SplitVersion(input) == SplitAt(input, LastIndex(input, "@"))

\* strings.SplitN(path, "/", 2).
SplitN2(path) ==
    LET idx == Index(path, "/")
    IN  IF idx = 0 THEN <<path>>
        ELSE <<SubSeq(path, 1, idx - 1), SubSeq(path, idx + 1, Len(path))>>

HttpsPrefix == <<"h", "t", "t", "p", "s", ":", "/", "/">>
GithubPrefix ==
    HttpsPrefix \o <<"g", "i", "t", "h", "u", "b", ".", "c", "o", "m", "/">>

\* buildGitURL.
BuildGitURL(path) ==
    LET parts == SplitN2(path)
    IN  IF Len(parts) < 2 THEN GithubPrefix \o path
        ELSE IF Contains(parts[1], <<".">>) THEN HttpsPrefix \o path
        ELSE GithubPrefix \o path

\* os.Stat(path) gives a directory: every step of the path is resolved in
\* turn, from the working directory, which is the root of the file system
\* (so that .. of it is itself). The empty path names nothing.
RECURSIVE StatDir(_, _, _)
StatDir(tree, cur, parts) ==
    IF ~IsDir(tree, cur) THEN FALSE
    ELSE IF parts = << >> THEN TRUE
    ELSE IF Head(parts) \in { << >>, <<".">> }
    THEN StatDir(tree, cur, Tail(parts))
    ELSE IF Head(parts) = <<".", ".">>
    THEN StatDir(tree, IF cur = << >> THEN cur ELSE Dir(cur), Tail(parts))
    ELSE StatDir(tree, Append(cur, Head(parts)), Tail(parts))

\* A plausible slip: the test for an existing directory is missing.
IsExistingDirNever(tree, path) == FALSE

IsExistingDir(tree, path) ==
    path # << >> /\ StatDir(tree, << >>, SplitSlash(path))

\* The Source that Parse returns, or none.
NilSource == [kind |-> "nil", Path |-> << >>, URL |-> << >>, Version |-> << >>]
LocalSource(path) ==
    [kind |-> "LocalSource", Path |-> path, URL |-> << >>, Version |-> << >>]
GitSource(url, version) ==
    [kind |-> "GitSource", Path |-> << >>, URL |-> url, Version |-> version]

\* Parse.
Parse(tree, input) ==
    LET sv == SplitVersion(input)
        local == IF sv.version # << >>
                 THEN [source |-> NilSource,
                       err |-> "version specifier not supported for local paths"]
                 ELSE [source |-> LocalSource(sv.path), err |-> "nil"]
    IN  IF HasPrefix(sv.path, <<".", "/">>) \/ HasPrefix(sv.path, <<"/">>)
        THEN local
        ELSE IF IsExistingDir(tree, sv.path) THEN local
        ELSE [source |-> GitSource(BuildGitURL(sv.path), sv.version),
              err |-> "nil"]

(***************************************************************************)
(* Parse at work                                                           *)
(***************************************************************************)

\* The length of the inputs that are enumerated in full.
MaxInput == 4

InputChars == { "a", ".", "/", "@" }

RECURSIVE StringsUpTo(_, _)
StringsUpTo(chars, n) ==
    IF n = 0 THEN { << >> }
    ELSE LET shorter == StringsUpTo(chars, n - 1)
         IN  shorter \cup { Append(s, c) : s \in shorter, c \in chars }

UserRepo == <<"u", "s", "e", "r", "/", "r", "e", "p", "o">>

\* Inputs as given on the command line: every short string of the
\* characters that matter, and the shorthand of the documentation, alone
\* and with a version.
ParseInputs ==
    StringsUpTo(InputChars, MaxInput)
        \cup { UserRepo, UserRepo \o <<"@", "v", "1">> }

\* What the working directory holds: nothing; a directory a, empty or with
\* a directory a in it; a file a; the directories user and user/repo.
ParseTrees ==
    { << >>,
      (<< <<"a">> >> :> DirEntry),
      (<< <<"a">> >> :> DirEntry) @@ (<< <<"a">>, <<"a">> >> :> DirEntry),
      (<< <<"a">> >> :> File(<< >>, <<"x">>, FALSE)),
      (<< <<"u", "s", "e", "r">> >> :> DirEntry)
          @@ (<< <<"u", "s", "e", "r">>, <<"r", "e", "p", "o">> >> :> DirEntry) }

ParseCall ==
    /\ hist = << >>
    /\ LET sv == SplitVersion(args.input)
           r == Parse(fs, args.input)
       IN  hist' = << [op |-> "Parse", input |-> args.input,
                       path |-> sv.path, version |-> sv.version,
                       source |-> r.source, err |-> r.err] >>
    /\ UNCHANGED <<fs, args>>

InitParse ==
    /\ ScaffoldIdle
    /\ FetchIdle
    /\ fs \in ParseTrees
    /\ args \in [input : ParseInputs]
    /\ hist = << >>

NextParse ==
    ParseCall /\ UNCHANGED <<scaffoldVars, fetchVars>>

SpecParse == InitParse /\ [][NextParse]_vars

(***************************************************************************)
(* Properties of Parse                                                     *)
(***************************************************************************)

Parsed == hist # << >> /\ hist[1].op = "Parse"

HasAt(s) == \E i \in 1..Len(s) : s[i] = "@"

\* The split at the last @: path + "@" + marker is the input and the marker
\* holds no @; without @ the path is the input and the marker is empty.
SplitsAtLastAt(h) ==
    IF HasAt(h.input)
    THEN /\ h.path \o <<"@">> \o h.version = h.input
         /\ ~HasAt(h.version)
    ELSE h.path = h.input /\ h.version = << >>

UserRepoIsGitSource(h) ==
    h.input = UserRepo
        => /\ h.err = "nil"
           /\ h.source = GitSource(GithubPrefix \o UserRepo, << >>)

\* C11, as claimed: the input is split at its last @, and Parse("user/repo")
\* is a GitSource with the URL https://github.com/user/repo and no version.
C11_SplitAndShorthand ==
    Parsed => SplitsAtLastAt(hist[1]) /\ UserRepoIsGitSource(hist[1])

\* C11, as the code has it: the input is split at its last @, and
\* Parse("user/repo") is that GitSource unless user/repo is an existing
\* directory.
C11_SplitAtLastAt ==
    Parsed =>
        /\ SplitsAtLastAt(hist[1])
        /\ ~IsDir(fs, << <<"u", "s", "e", "r">>, <<"r", "e", "p", "o">> >>)
              => UserRepoIsGitSource(hist[1])

\* An input with two @ was split at the second.
C11_Witness ==
    /\ Parsed
    /\ hist[1].input = <<"a", "@", "a", "@">>
    /\ hist[1].path = <<"a", "@", "a">>
    /\ hist[1].version = << >>

\* The path part is local: it starts with ./ or / or names an existing
\* directory, spelled as its segments or in any other way that os.Stat
\* resolves.
RECURSIVE Spelled(_)
Spelled(p) ==
    IF Len(p) = 1 THEN p[1] ELSE p[1] \o <<"/">> \o Spelled(Tail(p))

NamesDir(path) ==
    \E p \in DOMAIN fs : fs[p].kind = "dir" /\ path = Spelled(p)

LocalPath(h) ==
    \/ HasPrefix(h.path, <<".", "/">>)
    \/ HasPrefix(h.path, <<"/">>)
    \/ NamesDir(h.path)
    \/ IsExistingDir(fs, h.path)

\* C12: a local path with a marker makes Parse return an error and no
\* Source, and every LocalSource returned came from an empty marker.
C12_NoVersionOnLocal ==
    Parsed =>
        /\ (LocalPath(hist[1]) /\ hist[1].version # << >>)
              => hist[1].err # "nil" /\ hist[1].source = NilSource
        /\ hist[1].source.kind = "LocalSource" => hist[1].version = << >>

\* An existing directory with a marker was refused.
C12_Witness ==
    /\ Parsed
    /\ hist[1].input = <<"a", "@", "a">>
    /\ IsDir(fs, << <<"a">> >>)
    /\ hist[1].err # "nil"
    /\ hist[1].source = NilSource

\* The first segment of a path and the URL the claim gives it.
FirstSegment(path) == SplitSlash(path)[1]

\* C13: the URL of a remote path is https:// + path when the first segment
\* holds a dot and https://github.com/ + path otherwise, also for a path
\* of one segment.
C13_UrlByFirstSegment ==
    (Parsed /\ hist[1].source.kind = "GitSource") =>
        hist[1].source.URL =
            IF Contains(FirstSegment(hist[1].path), <<".">>)
            THEN HttpsPrefix \o hist[1].path
            ELSE GithubPrefix \o hist[1].path

\* The same for paths that hold a separator.
UrlByFirstSegmentOfSeveral ==
    (Parsed /\ hist[1].source.kind = "GitSource" /\ Index(hist[1].path, "/") # 0)
        => hist[1].source.URL =
            IF Contains(FirstSegment(hist[1].path), <<".">>)
            THEN HttpsPrefix \o hist[1].path
            ELSE GithubPrefix \o hist[1].path

(***************************************************************************)
(* The scaffold pipeline as a specification                                *)
(***************************************************************************)

InitScaffold ==
    /\ pc = "run"
    /\ opts \in Options
    /\ dst = opts.dst0
    /\ started = << >>
    /\ libCalls = << >>
    /\ returned = << >>
    /\ runErr = "none"
    /\ FetchIdle
    /\ RewriteIdle

NextScaffold ==
    \/ Run /\ UNCHANGED <<fetchVars, rewriteVars>>
    \/ ValidateDirectory /\ UNCHANGED <<fetchVars, rewriteVars>>
    \/ FetchTemplate /\ UNCHANGED <<fetchVars, rewriteVars>>
    \/ ValidateGoMod /\ UNCHANGED <<fetchVars, rewriteVars>>
    \/ RenamePathsStage /\ UNCHANGED <<fetchVars, rewriteVars>>
    \/ RewriteModuleStage /\ UNCHANGED <<fetchVars, rewriteVars>>
    \/ ReplaceVariablesStage /\ UNCHANGED <<fetchVars, rewriteVars>>
    \/ InitGitRepoStage /\ UNCHANGED <<fetchVars, rewriteVars>>
    \/ Created /\ UNCHANGED <<fetchVars, rewriteVars>>

SpecScaffold == InitScaffold /\ [][NextScaffold]_vars

\* C1: the stages of executeScaffold start in the one fixed order
\* (destination validation, Fetch, go.mod validation, RenamePaths, Module
\* rewrite, Variables, git init); a stage is started only when every earlier
\* stage returned nil, so an error is always the return of the last stage
\* started, and it ends the run with that error.
C1_StagesInOrder ==
    /\ Len(started) <= Len(StageOrder)
    /\ Len(returned) = Len(started)
    /\ \A i \in 1..Len(started) :
          /\ started[i] = StageOrder[i]
          /\ i < Len(started) => returned[i] = "nil"
          /\ returned[i] # "nil" => pc = "done" /\ runErr = returned[i]

\* C1 witness: four stages returned nil, the fifth (the Module rewrite)
\* failed, and the run ended there.
C1_Witness ==
    /\ pc = "done"
    /\ Len(started) = 5
    /\ returned[5] = "rewriting module"

\* Fetch was invoked.
FetchInvoked == \E k \in 1..Len(libCalls) : libCalls[k] = "Fetch"

Called(name) == \E k \in 1..Len(libCalls) : libCalls[k] = name

DirectoryErrors == { "checking directory", "reading directory" }

\* C19, as claimed: with source and module given, a source spec that does
\* not parse, a destination that is a non-empty directory and one that is
\* not a directory each make run return that error, without Fetch and with the destination as it was;
\* Fetch is invoked only on a destination that is absent or empty.
C19_ValidationErrors ==
    /\ FetchInvoked => opts.dst0 \in { "absent", "empty" }
    /\ pc = "done" =>
          /\ (opts.argsOK /\ ~opts.parseOK) =>
                runErr = "parsing source" /\ ~FetchInvoked /\ dst = opts.dst0
          /\ (opts.argsOK /\ opts.parseOK /\ opts.dst0 = "nonempty") =>
                runErr = "is not empty" /\ ~FetchInvoked /\ dst = opts.dst0
          /\ (opts.argsOK /\ opts.parseOK /\ opts.dst0 = "notdir") =>
                /\ runErr = "exists and is not a directory"
                /\ ~FetchInvoked
                /\ dst = opts.dst0

\* C19, as the code has it: the same of a run that scaffolds (source and
\* module given, no --dry-run), where os.Stat or os.ReadDir may fail and
\* then give the error; in every run Fetch is invoked only on a destination
\* that is absent or empty, and the destination is as it was until then.
C19_ValidationBeforeFetch ==
    /\ FetchInvoked => opts.dst0 \in { "absent", "empty" }
    /\ ~FetchInvoked => dst = opts.dst0
    /\ pc = "done" =>
          /\ (opts.argsOK /\ ~opts.parseOK) =>
                runErr = "parsing source" /\ ~FetchInvoked
          /\ (opts.argsOK /\ opts.parseOK /\ ~opts.dryRun) =>
                /\ opts.dst0 = "nonempty" =>
                      runErr \in { "is not empty" } \cup DirectoryErrors
                /\ opts.dst0 = "notdir" =>
                      runErr \in { "exists and is not a directory",
                                   "checking directory" }

\* A run ended at a destination that is not empty.
C19_Witness ==
    /\ pc = "done"
    /\ opts.dst0 = "nonempty"
    /\ runErr = "is not empty"
    /\ started = <<"validateDirectory">>
    /\ dst = "nonempty"

\* validateGoMod has returned on a tree without go.mod.
NoGoModFound == Len(returned) >= 3 /\ ~opts.hasGoMod

\* With --force the run goes on: RenamePaths is the next stage, and
\* Variables runs once the stages before it have returned nil.
GoesOnWithoutGoMod ==
    /\ returned[3] = "nil"
    /\ pc = "renamePaths" \/ Called("RenamePaths")
    /\ (Len(returned) >= 5 /\ returned[4] = "nil" /\ returned[5] = "nil")
          => pc = "replaceVariables" \/ Called("Variables")

MaxName == 3
MaxPattern == 2
MaxPatterns == 2

PatternChars == { ".", "a" }

ConfigToml == <<"c", "o", "n", "f", "i", "g", ".", "t", "o", "m", "l">>
ConfigYaml == <<"c", "o", "n", "f", "i", "g", ".", "y", "a", "m", "l">>
Justfile == <<"j", "u", "s", "t", "f", "i", "l", "e">>
XJustfile == <<"x", "."  >> \o Justfile
DotToml == <<".", "t", "o", "m", "l">>
Yaml == <<"y", "a", "m", "l">>

RECURSIVE ListsUpTo(_, _)
ListsUpTo(elems, n) ==
    IF n = 0 THEN { << >> }
    ELSE LET shorter == ListsUpTo(elems, n - 1)
         IN  shorter \cup { Append(l, x) : l \in shorter, x \in elems }

\* File names are entry names: not empty.
MatchNames == StringsUpTo(PatternChars, MaxName) \ { << >> }

MatchInputs ==
    [name : MatchNames,
     patterns : ListsUpTo(StringsUpTo(PatternChars, MaxPattern), MaxPatterns)]
        \cup [name : { ConfigToml, ConfigYaml, Justfile, XJustfile },
              patterns : { <<DotToml, Yaml>>, <<Justfile>> }]

\* The patterns with a dot put before each one that has none.
RECURSIVE Dotted(_)
Dotted(patterns) ==
    IF patterns = << >> THEN << >>
    ELSE << IF HasPrefix(patterns[1], <<".">>) THEN patterns[1]
            ELSE <<".">> \o patterns[1] >> \o Dotted(Tail(patterns))

\* The use in module.go and variables.go: the list is parsed once, each
\* entry name is matched against the set. The same name is matched against
\* the list written with dots.
MatchCall ==
    /\ hist = << >>
    /\ hist' = << [op |-> "matchesFilePattern",
                   name |-> args.name,
                   patterns |-> args.patterns,
                   result |-> MatchesFilePattern(
                                  args.name, ParseFilePatterns(args.patterns)),
                   dotted |-> MatchesFilePattern(
                                  args.name,
                                  ParseFilePatterns(Dotted(args.patterns)))] >>
    /\ UNCHANGED <<fs, args>>

InitMatch ==
    /\ ScaffoldIdle
    /\ FetchIdle
    /\ fs = << >>
    /\ args \in MatchInputs
    /\ hist = << >>

NextMatch ==
    MatchCall /\ UNCHANGED <<scaffoldVars, fetchVars>>

SpecMatch == InitMatch /\ [][NextMatch]_vars

(***************************************************************************)
(* Properties of the file patterns                                         *)
(***************************************************************************)

Matched == hist # << >> /\ hist[1].op = "matchesFilePattern"

\* A pattern without one leading dot.
StripOneDot(p) ==
    IF p # << >> /\ p[1] = "." THEN Tail(p) ELSE p

\* What follows the last dot of a name; nothing for a name without a dot.
BareExt(name) ==
    IF LastIndex(name, ".") = 0 THEN << >>
    ELSE SubSeq(name, LastIndex(name, ".") + 1, Len(name))

Accepts(p, name) ==
    /\ StripOneDot(p) # << >>
    /\ (StripOneDot(p) = name \/ StripOneDot(p) = BareExt(name))

\* C17: a file name matches a pattern list exactly when some pattern of
\* the list, without one leading dot, is not empty and is the file name or
\* the file name's extension without its dot; the list written with dots
\* matches the same names.
C17_MatchesIff ==
    Matched =>
        /\ hist[1].result
              <=> \E i \in 1..Len(hist[1].patterns) :
                      Accepts(hist[1].patterns[i], hist[1].name)
        /\ hist[1].dotted = hist[1].result

\* [".toml", "yaml"] matches config.toml.
C17_Witness ==
    /\ Matched
    /\ hist[1].name = ConfigToml
    /\ hist[1].patterns = <<DotToml, Yaml>>
    /\ hist[1].result

\* The other examples of the claim.
C17_Examples ==
    Matched =>
        /\ (hist[1].patterns = <<DotToml, Yaml>>
               /\ hist[1].name \in { ConfigToml, ConfigYaml })
              => hist[1].result
        /\ (hist[1].patterns = <<Justfile>>
               /\ hist[1].name \in { Justfile, XJustfile })
              => hist[1].result

(***************************************************************************)
(* cmd/gohatch/main.go: parseVariables                                     *)
(***************************************************************************)

\* A cut at the last separator instead of the first.
CutAtLast(s, sep) ==
    IF LastIndex(s, sep) = 0
    THEN [before |-> s, after |-> << >>, found |-> FALSE]
    ELSE [before |-> SubSeq(s, 1, LastIndex(s, sep) - 1),
          after |-> SubSeq(s, LastIndex(s, sep) + 1, Len(s)),
          found |-> TRUE]

\* strings.Cut for a separator of one character: the text before and after
\* its first occurrence, and whether there is one.
Cut(s, sep) ==
    IF Index(s, sep) = 0
    THEN [before |-> s, after |-> << >>, found |-> FALSE]
    ELSE [before |-> SubSeq(s, 1, Index(s, sep) - 1),
          after |-> SubSeq(s, Index(s, sep) + 1, Len(s)),
          found |-> TRUE]

ProjectNameKey == <<"P", "r", "o", "j", "e", "c", "t", "N", "a", "m", "e">>

\* result[key] = value on a Go map.
MapSet(m, key, value) ==
    [k \in DOMAIN m \cup {key} |-> IF k = key THEN value ELSE m[k]]

\* parseVariables: the map starts with ProjectName, the entries are taken
\* in order.
RECURSIVE ParseVariablesFrom(_, _)
ParseVariablesFrom(result, varList) ==
    IF varList = << >> THEN result
    ELSE LET c == Cut(varList[1], "=")
         IN  ParseVariablesFrom(
                 IF c.found THEN MapSet(result, c.before, c.after)
                 ELSE result,
                 Tail(varList))

ParseVariables(varList, defaultProjectName) ==
    ParseVariablesFrom((ProjectNameKey :> defaultProjectName), varList)

(***************************************************************************)
(* parseVariables at work                                                  *)
(***************************************************************************)

\* The length of the entries that are enumerated in full and the number of
\* entries on a command line.
MaxEntry == 3
MaxVars == 2

EntryChars == { "k", "=" }

\* The -v entries: every short string, and ProjectName followed by one.
VarEntries ==
    StringsUpTo(EntryChars, MaxEntry)
        \cup { ProjectNameKey \o rest :
                  rest \in StringsUpTo(EntryChars, MaxEntry - 1) }

\* path.Base of the directory: a name, or "." for an empty directory.
DefaultNames == { <<"m", "y", "a", "p", "p">>, <<".">> }

ParseVariablesCall ==
    /\ hist = << >>
    /\ hist' = << [op |-> "parseVariables",
                   vars |-> args.vars,
                   defaultProjectName |-> args.defaultProjectName,
                   result |-> ParseVariables(
                                  args.vars, args.defaultProjectName)] >>
    /\ UNCHANGED <<fs, args>>

InitVars ==
    /\ ScaffoldIdle
    /\ FetchIdle
    /\ fs = << >>
    /\ args \in [vars : ListsUpTo(VarEntries, MaxVars),
                 defaultProjectName : DefaultNames]
    /\ hist = << >>

NextVars ==
    ParseVariablesCall /\ UNCHANGED <<scaffoldVars, fetchVars>>

SpecVars == InitVars /\ [][NextVars]_vars

(***************************************************************************)
(* Properties of parseVariables                                            *)
(***************************************************************************)

VariablesParsed == hist # << >> /\ hist[1].op = "parseVariables"

HasEquals(entry) == \E i \in 1..Len(entry) : entry[i] = "="

\* The position of the first '=' of an entry that has one.
FirstEquals(entry) ==
    CHOOSE i \in 1..Len(entry) :
        entry[i] = "=" /\ \A j \in 1..(i - 1) : entry[j] # "="

KeyOf(entry) == SubSeq(entry, 1, FirstEquals(entry) - 1)
ValueOf(entry) == SubSeq(entry, FirstEquals(entry) + 1, Len(entry))

\* The places of the entries that set a key.
Setting(varList, key) ==
    { i \in 1..Len(varList) :
         HasEquals(varList[i]) /\ KeyOf(varList[i]) = key }

Last(places) == CHOOSE i \in places : \A j \in places : j <= i

\* C18: the map of parseVariables always has the key ProjectName, with the
\* default unless an entry has that key, and then with the value of the
\* last such entry; every entry is split at its first '=' and the last
\* entry of a key gives its value; entries without '=' add no key.
C18_ParseVariables ==
    VariablesParsed =>
        LET c == hist[1]
        IN  /\ ProjectNameKey \in DOMAIN c.result
            /\ Setting(c.vars, ProjectNameKey) = {}
                  => c.result[ProjectNameKey] = c.defaultProjectName
            /\ DOMAIN c.result =
                  {ProjectNameKey}
                      \cup { KeyOf(c.vars[i]) :
                                i \in { j \in 1..Len(c.vars) :
                                           HasEquals(c.vars[j]) } }
            /\ \A key \in DOMAIN c.result :
                  Setting(c.vars, key) # {}
                      => c.result[key] =
                             ValueOf(c.vars[Last(Setting(c.vars, key))])

\* Two entries for ProjectName, the second with a value that holds a '='.
C18_Witness ==
    /\ VariablesParsed
    /\ hist[1].vars = << ProjectNameKey \o <<"=", "k">>,
                         ProjectNameKey \o <<"=", "=">> >>
    /\ hist[1].result = (ProjectNameKey :> <<"=">>)

(***************************************************************************)
(* internal/source/source.go: LocalSource and the destination tree         *)
(***************************************************************************)

\* Permission bits are a set of these; the umask of the process is one too.
PermBits == { "ur", "uw", "ux", "gr", "gw", "gx", "or", "ow", "ox" }

Mode0750 == { "ur", "uw", "ux", "gr", "gx" }
Mode0755 == { "ur", "uw", "ux", "gr", "gx", "or", "ox" }
Mode0644 == { "ur", "uw", "gr", "or" }
Mode0664 == { "ur", "uw", "gr", "gw", "or" }
Umask022 == { "gw", "ow" }
Umask002 == { "ow" }

\* A file and a directory with their permission bits.
FileOf(body, mode) ==
    [kind |-> "file", imports |-> << >>, body |-> body, bad |-> FALSE,
     mode |-> mode]

DirOf(mode) ==
    [kind |-> "dir", imports |-> << >>, body |-> << >>, bad |-> FALSE,
     mode |-> mode]

\* os.MkdirAll(path, perm): nil for a directory that exists, an error for
\* a file in the way; a missing directory is created after its parents,
\* with perm less the umask.
RECURSIVE MkdirAll(_, _, _, _)
MkdirAll(tree, path, perm, umask) ==
    IF IsDir(tree, path) THEN [tree |-> tree, err |-> "nil"]
    ELSE IF path \in DOMAIN tree THEN [tree |-> tree, err |-> "ENOTDIR"]
    ELSE LET up == MkdirAll(tree, Dir(path), perm, umask)
         IN  IF up.err # "nil" THEN up
             ELSE [tree |-> (path :> DirOf(perm \ umask)) @@ up.tree,
                   err |-> "nil"]

\* os.WriteFile(name, data, perm): the file is opened with O_CREATE and
\* O_TRUNC. A new file gets perm less the umask; a file that exists keeps
\* its mode and gets the data.
WriteFile(tree, path, data, perm, umask) ==
    IF ~IsDir(tree, Dir(path)) THEN [tree |-> tree, err |-> "ENOENT"]
    ELSE IF path \in DOMAIN tree /\ tree[path].kind = "dir"
    THEN [tree |-> tree, err |-> "EISDIR"]
    ELSE IF path \in DOMAIN tree /\ "uw" \notin tree[path].mode
    THEN [tree |-> tree, err |-> "EACCES"]
    ELSE [tree |-> (path :> FileOf(data,
                                   IF path \in DOMAIN tree
                                   THEN tree[path].mode
                                   ELSE perm \ umask)) @@ tree,
          err |-> "nil"]

\* os.RemoveAll(path): the entry and all below it; nil when there is none.
RemoveAll(tree, path) ==
    [p \in { q \in DOMAIN tree : q # path /\ ~IsUnder(q, path) } |-> tree[p]]

\* A copy that skips no directory.
CopySkippedNothing == { }

\* The directories the callback of copyDir answers with filepath.SkipDir.
CopySkipped == { GitName }

\* The longest path, in names, that the file system takes (PATH_MAX).
PathMax == 6

\* The callback of copyDir for one entry of the walk: a directory is made
\* with 0o750, a file is read and written with the mode of its source.
CopyEntry(tree, src, dest, path, entry, umask) ==
    IF Len(dest \o Rel(src, path)) > PathMax
    THEN [tree |-> tree, err |-> "ENAMETOOLONG"]
    ELSE IF entry.kind = "dir"
    THEN MkdirAll(tree, dest \o Rel(src, path), Mode0750, umask)
    ELSE IF "ur" \notin entry.mode THEN [tree |-> tree, err |-> "EACCES"]
    ELSE WriteFile(tree, dest \o Rel(src, path), entry.body, entry.mode,
                   umask)

\* The walk of copyDir, as filepath.WalkDir makes it: the callback is
\* called for an entry, and only then, for a directory it did not skip, the
\* directory is read and its entries are walked in the order of their
\* names. What the callback has created by then in a directory yet to be
\* read is part of what is read. The first error ends the walk. st.k counts
\* the entries handled, io.failAt is the entry at which the file system
\* fails (0: nowhere), st.seen are the paths the callback handled.
RECURSIVE CopyWalk(_, _, _, _, _)
RECURSIVE CopyList(_, _, _, _, _, _)
CopyWalk(st, src, dest, path, io) ==
    LET d == st.tree[path]
    IN  IF d.kind = "dir" /\ Base(path) \in CopySkipped THEN st
        ELSE IF io.failAt = st.k THEN [st EXCEPT !.err = "EIO"]
        ELSE LET r == CopyEntry(st.tree, src, dest, path, d, io.umask)
                 next == [tree |-> r.tree, err |-> r.err, k |-> st.k + 1,
                          seen |-> Append(st.seen, path)]
             IN  IF r.err # "nil" \/ d.kind # "dir" THEN next
                 ELSE CopyList(next, src, dest, path,
                               Children(r.tree, path), io)

CopyList(st, src, dest, dir, names, io) ==
    IF names = << >> \/ st.err # "nil" THEN st
    ELSE CopyList(CopyWalk(st, src, dest, Append(dir, Head(names)), io),
                  src, dest, dir, Tail(names), io)

\* copyDir(src, dest); src is a clean path.
CopyDir(tree, src, dest, io) ==
    IF src \notin DOMAIN tree
    THEN [tree |-> tree, err |-> "ENOENT", k |-> 1, seen |-> << >>]
    ELSE CopyWalk([tree |-> tree, err |-> "nil", k |-> 1, seen |-> << >>],
                  src, dest, src, io)

\* LocalSource.Fetch; filepath.Clean of the path, taken from the working
\* directory.
LocalSourceFetch(tree, s, dest, io) ==
    CopyDir(tree, Join(<< >>, s.Path), dest, io)

(***************************************************************************)
(* internal/source/source.go: GitSource and the destination tree           *)
(***************************************************************************)

ConfigName == <<"c">>

\* A work tree placed at dest: the files and directories of a commit, at
\* their paths below dest.
Placed(dest, files) ==
    [p \in { dest \o q : q \in DOMAIN files } |->
        files[CHOOSE q \in DOMAIN files : dest \o q = p]]

\* git.PlainCloneContext(ctx, dest, false, o) that succeeds: dest is made,
\* the repository is laid out in dest/.git and the work tree checked out
\* beside it.
Cloned(tree, dest, files, umask) ==
    LET made == MkdirAll(tree, Append(dest, GitName), Mode0755, umask).tree
    IN  Placed(dest, files)
            @@ (Append(Append(dest, GitName), ConfigName)
                    :> FileOf(<<"x">>, Mode0644 \ umask))
            @@ made

\* worktree.Checkout of a hash that succeeds: the work tree is that of the
\* commit, the repository stays.
CheckedOut(tree, dest, files) ==
    LET kept == { p \in DOMAIN tree :
                     \/ ~IsUnder(p, dest)
                     \/ p = Append(dest, GitName)
                     \/ IsUnder(p, Append(dest, GitName)) }
    IN  Placed(dest, files) @@ [p \in kept |-> tree[p]]

\* Whether the call fails at the remote or in the file system.
CallFails(g, call) ==
    \/ call.call = "PlainCloneContext" /\ g.cloneFails
    \/ call.call = "Worktree" /\ g.worktreeFails
    \/ call.call = "Checkout" /\ g.checkoutFails
    \/ call.call = "RemoveAll" /\ g.removeFails

\* What one call of Fetch does to the tree; a call that fails leaves it.
GitEffect(tree, call, g, dest, io) ==
    IF CallFails(g, call) THEN tree
    ELSE IF call.call = "PlainCloneContext"
    THEN Cloned(tree, dest, io.worktree, io.umask)
    ELSE IF call.call = "Checkout" THEN CheckedOut(tree, dest, io.commit)
    ELSE IF call.call = "RemoveAll"
    THEN RemoveAll(tree, Append(dest, GitName))
    ELSE tree

\* The calls of a Fetch in order.
RECURSIVE GitEffects(_, _, _, _, _)
GitEffects(tree, calls, g, dest, io) ==
    IF calls = << >> THEN tree
    ELSE GitEffects(GitEffect(tree, Head(calls), g, dest, io),
                    Tail(calls), g, dest, io)

\* GitSource.Fetch(ctx, dest) with what it leaves in the file system.
GitSourceFetchInto(tree, g, dest, io) ==
    LET r == GitSourceFetch(g)
    IN  [tree |-> GitEffects(tree, r.calls, g, dest, io),
         calls |-> r.calls, err |-> r.err]

(***************************************************************************)
(* Fetch at work on a file system                                          *)
(***************************************************************************)

\* The template directory and the destination, side by side in the
\* working directory.
TemplateDir == << <<"t">> >>
TemplateArg == <<".", "/", "t">>
Destination == << <<"p">> >>

EntryA == <<"a">>
EntryD == <<"d">>
DotEnv == <<".", "e">>

\* No entry.
NoEntries == << >>

Entry(cond, path, entry) == IF cond THEN (path :> entry) ELSE NoEntries

\* A template: a file a with some mode, a dot-file, a .git that is a
\* directory or a file, a directory d with a file and a .git of its own.
TemplateTree(ch) ==
    (TemplateDir :> DirOf(Mode0755))
        @@ Entry(ch.a # { }, Append(TemplateDir, EntryA), FileOf(<<"x">>, ch.a))
        @@ Entry(ch.dot, Append(TemplateDir, DotEnv), FileOf(<<"y">>, Mode0644))
        @@ Entry(ch.git = "dir", Append(TemplateDir, GitName), DirOf(Mode0755))
        @@ Entry(ch.git = "dir",
                 Append(Append(TemplateDir, GitName), ConfigName),
                 FileOf(<<"x">>, Mode0644))
        @@ Entry(ch.git = "file", Append(TemplateDir, GitName),
                 FileOf(<<"x">>, Mode0644))
        @@ Entry(ch.sub # "none", Append(TemplateDir, EntryD), DirOf(Mode0755))
        @@ Entry(ch.sub \in { "file", "both" },
                 Append(Append(TemplateDir, EntryD), EntryA),
                 FileOf(<<"y">>, Mode0644))
        @@ Entry(ch.sub \in { "git", "both" },
                 Append(Append(TemplateDir, EntryD), GitName),
                 DirOf(Mode0755))
        @@ Entry(ch.sub \in { "git", "both" },
                 Append(Append(Append(TemplateDir, EntryD), GitName),
                        ConfigName),
                 FileOf(<<"x">>, Mode0644))

TemplateTrees ==
    { TemplateTree(ch) :
        ch \in [a : { { }, Mode0644, Mode0755, Mode0664 },
                dot : BOOLEAN,
                git : { "none", "dir", "file" },
                sub : { "none", "empty", "file", "git", "both" }] }

\* The destination as validateDirectory lets it through: missing, or an
\* empty directory.
DestinationTrees == { NoEntries, (Destination :> DirOf(Mode0755)) }

Umasks == { Umask022, Umask002 }

\* The work trees of the commits of a remote, relative to the clone.
WorkTrees ==
    { (<<GoModName>> :> FileOf(<<"x">>, Mode0644)),
      (<<EntryD>> :> DirOf(Mode0755))
          @@ (<<EntryD, EntryA>> :> FileOf(<<"y">>, Mode0644)) }

LocalFetches ==
    [source : { LocalSource(TemplateArg) },
     dest : { Destination },
     io : [umask : Umasks, failAt : { 0, 2 },
           worktree : { NoEntries }, commit : { NoEntries }]]

GitFetches ==
    [source : { GitSource(<< >>, << >>) },
     dest : { Destination },
     io : [umask : Umasks, failAt : { 0 },
           worktree : WorkTrees, commit : WorkTrees]]

LocalFetchCall ==
    /\ hist = << >>
    /\ args.source.kind = "LocalSource"
    /\ LET r == LocalSourceFetch(fs, args.source, args.dest, args.io)
       IN  /\ fs' = r.tree
           /\ hist' = << [op |-> "Fetch", source |-> args.source,
                          dest |-> args.dest, io |-> args.io,
                          before |-> fs, err |-> r.err,
                          seen |-> r.seen] >>
    /\ UNCHANGED <<args, fetchVars>>

GitFetchCall ==
    /\ hist = << >>
    /\ args.source.kind = "GitSource"
    /\ LET r == GitSourceFetchInto(fs, git, args.dest, args.io)
       IN  /\ fs' = r.tree
           /\ gitCalls' = r.calls
           /\ gitErr' = r.err
           /\ hist' = << [op |-> "Fetch", source |-> args.source,
                          dest |-> args.dest, io |-> args.io,
                          before |-> fs, err |-> r.err] >>
    /\ UNCHANGED <<args, git>>

InitAcquire ==
    /\ ScaffoldIdle
    /\ hist = << >>
    /\ gitCalls = << >>
    /\ gitErr = "none"
    /\ \/ /\ args \in LocalFetches
          /\ FetchIdle
          /\ \E t \in TemplateTrees, d \in DestinationTrees : fs = t @@ d
       \/ /\ args \in GitFetches
          /\ git \in GitInputs
          /\ fs \in DestinationTrees

NextAcquire ==
    (LocalFetchCall \/ GitFetchCall) /\ UNCHANGED scaffoldVars

SpecAcquire == InitAcquire /\ [][NextAcquire]_vars

(***************************************************************************)
(* Properties of Fetch on a file system                                    *)
(***************************************************************************)

Fetched == hist # << >> /\ hist[1].op = "Fetch"
FetchedWell == Fetched /\ hist[1].err = "nil"

\* The path has, from the given depth on, a directory named .git on it or
\* is one.
ThroughGitDir(tree, path, depth) ==
    \E k \in (depth + 1)..Len(path) :
        /\ path[k] = GitName
        /\ tree[SubSeq(path, 1, k)].kind = "dir"

\* C14: after a Fetch that returns nil, local or remote, no directory named
\* .git is in the destination at any depth, and nothing that lay in one has
\* been copied.
C14_NoGitDirInDestination ==
    FetchedWell =>
        \A p \in DOMAIN fs :
            IsUnder(p, hist[1].dest)
                => ~ThroughGitDir(fs, p, Len(hist[1].dest))

\* A clone, a checkout of a revision and the removal of .git have all
\* succeeded and left the commit's files.
C14_Witness ==
    /\ FetchedWell
    /\ hist[1].source.kind = "GitSource"
    /\ Len(gitCalls) = 5
    /\ gitCalls[4].call = "Checkout"
    /\ \E p \in DOMAIN fs : IsUnder(p, hist[1].dest)

\* The entries of the template that are not a directory named .git and
\* not in one, relative to the template.
Kept(tree, src) ==
    { Rel(src, p) :
        p \in { q \in DOMAIN tree :
                   IsUnder(q, src) /\ ~ThroughGitDir(tree, q, Len(src)) } }

Below(tree, dir) == { Rel(dir, p) : p \in { q \in DOMAIN tree : IsUnder(q, dir) } }

SameEntries ==
    Below(fs, hist[1].dest) = Kept(hist[1].before, TemplateDir)

SameKindAndContent ==
    \A q \in Below(fs, hist[1].dest) \cap Kept(hist[1].before, TemplateDir) :
        /\ fs[hist[1].dest \o q].kind = hist[1].before[TemplateDir \o q].kind
        /\ fs[hist[1].dest \o q].body = hist[1].before[TemplateDir \o q].body

SameMode ==
    \A q \in Below(fs, hist[1].dest) \cap Kept(hist[1].before, TemplateDir) :
        fs[hist[1].dest \o q].kind = "file"
            => fs[hist[1].dest \o q].mode
                   = hist[1].before[TemplateDir \o q].mode

LocalFetchedWell == FetchedWell /\ hist[1].source.kind = "LocalSource"

\* C16: after LocalSource.Fetch has succeeded the destination holds, at the
\* same relative paths, exactly the files and directories of the source
\* that are not in a directory named .git, dot-files included, and every
\* copied file has the content and the permission bits of its source.
C16_CopiesContentAndMode ==
    LocalFetchedWell =>
        /\ hist[1].dest \in DOMAIN fs
        /\ SameEntries
        /\ SameKindAndContent
        /\ SameMode

\* The same without the permission bits, which are those of the source
\* less the umask.
CopiesContentAndMaskedMode ==
    LocalFetchedWell =>
        /\ hist[1].dest \in DOMAIN fs
        /\ SameEntries
        /\ SameKindAndContent
        /\ \A q \in Below(fs, hist[1].dest) :
              fs[hist[1].dest \o q].kind = "file"
                  => fs[hist[1].dest \o q].mode
                         = hist[1].before[TemplateDir \o q].mode
                               \ hist[1].io.umask

(***************************************************************************)
(* Properties of run in dry-run mode                                       *)
(***************************************************************************)

\* C21: in dry-run mode nothing is changed: no stage of executeScaffold is
\* started, so validateDirectory, Fetch, RenamePaths, Module, Variables and
\* the git initialisation are never invoked, the destination is as it was,
\* and once the source is parsed run only prints and returns nil.
C21_DryRunChangesNothing ==
    opts.dryRun =>
        /\ started = << >>
        /\ returned = << >>
        /\ dst = opts.dst0
        /\ \A k \in 1..Len(libCalls) :
              libCalls[k] \in { "ShowAppHelp", "Parse", "runDryRun" }
        /\ (pc = "done" /\ opts.argsOK /\ opts.parseOK)
              => runErr = "nil" /\ libCalls = <<"Parse", "runDryRun">>

\* A dry run over a destination that scaffolding would refuse.
C21_Witness ==
    /\ pc = "done"
    /\ opts.dryRun /\ opts.argsOK /\ opts.parseOK
    /\ opts.dst0 = "nonempty"
    /\ libCalls = <<"Parse", "runDryRun">>
    /\ runErr = "nil"

(***************************************************************************)
(* Properties of RenamePaths: order, failure, remapping, collisions        *)
(***************************************************************************)

\* The number of separators in a path below the working directory.
Depth(path) == Len(path) - 1

\* The entry of the returned list for a pair of paths under dir.
Reported(dir, old, new) ==
    PathString(Rel(dir, old)) \o <<" ", "arrow", " ">>
        \o PathString(Rel(dir, new))

\* C22: RenamePaths issues its renames in non-increasing order of the depth
\* of the collected paths, so no entry is renamed after a directory above
\* it; the list it returns has one entry per rename, in the order of the
\* renames, each "old -> new" with both paths relative to the root.
C22_DeepestFirst ==
    \A i \in RenameCalls :
        LET h == hist[i]
        IN  /\ \A j, k \in 1..Len(h.log) :
                  j < k => /\ Depth(h.log[j].from) >= Depth(h.log[k].from)
                           /\ ~IsUnder(h.log[k].from, h.log[j].from)
            /\ h.err = "nil" =>
                  /\ Len(h.list) = Len(h.log)
                  /\ \A k \in 1..Len(h.log) :
                        /\ IsUnder(h.log[k].old, args.dir)
                        /\ IsUnder(h.log[k].new, args.dir)
                        /\ h.list[k] = Reported(args.dir, h.log[k].old,
                                                h.log[k].new)

\* A directory and an entry in it are both renamed, the entry first.
C22_Witness ==
    \E i \in RenameCalls :
        /\ hist[i].err = "nil"
        /\ Len(hist[i].list) >= 2
        /\ \E j, k \in 1..Len(hist[i].log) :
              j < k /\ IsUnder(hist[i].log[j].from, hist[i].log[k].from)

\* The tree after the first n renames of a log have been applied in order.
RECURSIVE AfterRenames(_, _, _)
AfterRenames(tree, log, n) ==
    IF n = 0 THEN tree
    ELSE OsRename(AfterRenames(tree, log, n - 1), log[n].old, log[n].new).tree

\* The entries RenamePaths collects: those outside vendor and .git whose
\* name the substitution changes.
Collected(tree, tvars) ==
    { p \in DOMAIN tree :
        ~InSpecialDir(tree, p) /\ SubstNames(Base(p), tvars) # { Base(p) } }

RenameFailures == { i \in RenameCalls : hist[i].err = "renaming" }

\* C23: when an os.Rename fails RenamePaths returns at once with the error
\* of that pair and a nil list: the failing rename is the last one issued,
\* all before it succeeded, and the tree is the one those renames left.
C23_StopsAtFirstFailure ==
    \A i \in RenameCalls :
        LET h == hist[i]
            n == Len(h.log)
        IN  /\ \A k \in 1..(n - 1) : h.log[k].err = "nil"
            /\ h.err = "nil" => \A k \in 1..n : h.log[k].err = "nil"
            /\ h.err = "renaming" =>
                  /\ n >= 1
                  /\ h.log[n].err # "nil"
                  /\ h.list = << >>
                  /\ h.after = AfterRenames(h.before, h.log, n - 1)

\* A rename has been applied, the next one fails and a collected entry is
\* left unattempted.
C23_Witness ==
    \E i \in FirstRename :
        /\ hist[i].err = "renaming"
        /\ Len(hist[i].log) >= 2
        /\ Len(hist[i].log) < Cardinality(Collected(hist[i].before, args.tvars))
        /\ hist[i].after # hist[i].before

\* C25, as claimed: the remap step changes no path: every os.Rename is
\* called with exactly the pair that phase 1 collected.
C25_RemapIsIdentity ==
    \A i \in RenameCalls :
        \A k \in 1..Len(hist[i].log) :
            /\ hist[i].log[k].old = hist[i].log[k].from
            /\ hist[i].log[k].new = hist[i].log[k].to

\* The renames of a log before the k-th whose old path is the path or a
\* directory above it.
AppliedAbove(log, k, path) ==
    { j \in 1..(k - 1) :
        log[j].old = path \/ IsUnder(path, log[j].old) }

\* C25, as the code has it: the old path of every rename is the collected
\* one, since deepest-first no rename already applied is at or above a
\* path still to be renamed; the new path is the collected one unless a
\* rename already applied had its old path at or above it, and then
\* os.Rename is called with the remapped target.
C25_RemapOnlyNewPaths ==
    \A i \in RenameCalls :
        \A k \in 1..Len(hist[i].log) :
            LET l == hist[i].log
            IN  /\ l[k].old = l[k].from
                /\ AppliedAbove(l, k, l[k].from) = { }
                /\ l[k].new # l[k].to <=> AppliedAbove(l, k, l[k].to) # { }

\* __B__ has become y, and __A__, collected with the target __B__, is
\* renamed to y.
C25_Witness ==
    \E i \in FirstRename :
        \E k \in 1..Len(hist[i].log) :
            /\ hist[i].log[k].new # hist[i].log[k].to
            /\ hist[i].log[k].err = "nil"

FilesOf(tree) == { p \in DOMAIN tree : tree[p].kind = "file" }

\* C26, as claimed: RenamePaths loses no entry: no rename goes onto a path
\* that another entry occupies, and a successful call leaves as many files
\* as it found, each with its content.
C26_NoEntryLost ==
    \A i \in RenameCalls :
        LET h == hist[i]
        IN  /\ \A k \in 1..Len(h.log) :
                  h.log[k].err = "nil"
                      => h.log[k].new
                            \notin DOMAIN AfterRenames(h.before, h.log, k - 1)
            /\ h.err = "nil" =>
                  /\ Cardinality(FilesOf(h.after))
                        = Cardinality(FilesOf(h.before))
                  /\ \A p \in FilesOf(h.before) :
                        \E q \in FilesOf(h.after) : h.after[q] = h.before[p]

(***************************************************************************)
(* Properties of Module: the metadata directory, the list, failures        *)
(***************************************************************************)

ModuleCalls == { i \in 1..Len(hist) : hist[i].op = "Module" }

\* C24: no file under a directory named .git is modified, written or
\* reported by any call of Module.
C24_GitDirUntouchedByModule ==
    \A i \in ModuleCalls :
        \A p \in Files(hist[i].before) :
            UnderDirNamed(p, GitName) =>
                /\ hist[i].after[p] = hist[i].before[p]
                /\ p \notin WrittenPaths(hist[i])
                /\ p \notin ListedPaths(hist[i])

(***************************************************************************)
(* The rewrite engine at work on roots of any name                         *)
(***************************************************************************)

\* The base name of the directory the stages are given: a plain name, the
\* two names the walks prune, and a name with a placeholder.
RootNames == { RootName, VendorName, GitName, Placeholder(KeyA) }

\* What lies directly in the root: go.mod declaring m, a Go file that
\* imports m/p and holds the placeholder of A, a file named __A__.
RootSlots ==
    ( <<GoModName>> :> { File(<< >>, GoModText(ModM), FALSE) } )
    @@ ( << <<"a", ".", "g", "o">> >> :> { GoFileTwoImports } )
    @@ ( << Placeholder(KeyA) >> :> { Marked(<< Placeholder(KeyA) >>) } )

InitRoot ==
    /\ ScaffoldIdle
    /\ FetchIdle
    /\ \E name \in RootNames, chosen \in Choices(RootSlots) :
          /\ fs = TreeOf(name, chosen)
          /\ args = [dir |-> <<name>>, newModule |-> ModN,
                     patterns |-> << >>, tvars |-> VarsA]
    /\ hist = << >>

NextRoot ==
    \/ RenamePathsCall /\ UNCHANGED <<scaffoldVars, fetchVars>>
    \/ ModuleCall /\ UNCHANGED <<scaffoldVars, fetchVars>>
    \/ VariablesCall /\ UNCHANGED <<scaffoldVars, fetchVars>>

SpecRoot == InitRoot /\ [][NextRoot]_vars

(***************************************************************************)
(* Properties of the stages on roots of any name                           *)
(***************************************************************************)

\* The entries directly in the directory.
EntriesIn(tree, dir) == { p \in DOMAIN tree : Len(p) = Len(dir) + 1 /\ Dir(p) = dir }

\* A Go file none of whose imports refers to the module.
NoImportOf(data, mod) ==
    \A k \in DOMAIN data.imports : ~RefersTo(Unquote(data.imports[k]), mod)

\* C27: whatever the base name of the root is, the root itself is never
\* renamed, and a first call that succeeds has processed the files in it:
\* RenamePaths leaves no name with a placeholder, Module no import of the
\* old module in a Go file, Variables no placeholder in a Go file.
C27_RootIsOnlyAContainer ==
    (Len(hist) >= 1 /\ hist[1].err = "nil") =>
        LET h == hist[1]
        IN  /\ args.dir \in DOMAIN h.after
            /\ h.op = "RenamePaths" =>
                  \A p \in EntriesIn(h.after, args.dir) :
                      ~HasPlaceholder(Base(p), args.tvars)
            /\ (h.op = "Module" /\ GoModPath \in DOMAIN h.before) =>
                  \A p \in EntriesIn(h.after, args.dir) :
                      HasSuffix(Base(p), GoExt) => NoImportOf(h.after[p], ModM)
            /\ h.op = "Variables" =>
                  \A p \in EntriesIn(h.after, args.dir) :
                      HasSuffix(Base(p), GoExt)
                          => NoPlaceholderIn(h.after[p], args.tvars)

\* The same for a root whose name is none of vendor, .git or a name with a
\* placeholder.
PlainRootIsAContainer ==
    args.dir = <<RootName>> => C27_RootIsOnlyAContainer


(***************************************************************************)
(* Properties of the list returned by Module                               *)
(***************************************************************************)

Once(list) == \A j, k \in 1..Len(list) : list[j] = list[k] => j = k

\* C28: the list returned by Module contains each relative path at most
\* once, also when the extra patterns match go.mod or the .go files.
C28_ListHasNoDuplicates ==
    \A i \in ModuleCalls : Once(hist[i].list)


(***************************************************************************)
(* LocalSource.Fetch into a destination inside the source                  *)
(***************************************************************************)

\* The destination of a run started in the template: a name in the
\* template directory, missing or an empty directory.
NestedDestination == Append(TemplateDir, <<"p">>)

NestedDestinationTrees ==
    { NoEntries, (NestedDestination :> DirOf(Mode0755)) }

NestedFetches ==
    [source : { LocalSource(TemplateArg) },
     dest : { NestedDestination },
     io : [umask : Umasks, failAt : { 0, 2 },
           worktree : { NoEntries }, commit : { NoEntries }]]

InitNested ==
    /\ ScaffoldIdle
    /\ FetchIdle
    /\ hist = << >>
    /\ args \in NestedFetches
    /\ \E t \in TemplateTrees, d \in NestedDestinationTrees : fs = t @@ d

NextNested == LocalFetchCall /\ UNCHANGED scaffoldVars

SpecNested == InitNested /\ [][NextNested]_vars

(***************************************************************************)
(* Properties of the walk of LocalSource.Fetch                             *)
(***************************************************************************)

LocalFetched == Fetched /\ hist[1].source.kind = "LocalSource"

Seen(h) == { h.seen[k] : k \in 1..Len(h.seen) }

\* The call handles only entries the tree had when it began, and each of
\* them once; when it succeeds these are all the entries of the source
\* that are not in a directory named .git.
WalksOnlyTheSource ==
    LocalFetched =>
        LET h == hist[1]
        IN  /\ Seen(h) \subseteq DOMAIN h.before
            /\ Once(h.seen)
            /\ h.err = "nil" =>
                   { Rel(TemplateDir, p) : p \in Seen(h) \ { TemplateDir } }
                       = Kept(h.before, TemplateDir)

\* C29: LocalSource.Fetch ends by exhausting the source, not by running
\* into the limit on the length of a path, also when the destination lies
\* inside the source; it copies each source file once, and no entry
\* created in the destination during the copy is walked and copied again.
C29_NestedCopyTerminates ==
    LocalFetched =>
        /\ hist[1].err # "ENAMETOOLONG"
        /\ WalksOnlyTheSource


(***************************************************************************)
(* Properties of a Module call that fails half way                         *)
(***************************************************************************)

\* The calls of Module that failed in the import pass, after go.mod was
\* written.
FailedAfterGoMod ==
    { i \in ModuleCalls : hist[i].err = "rewriting imports" }

\* The .go files the failed call rewrote before it failed.
RewrittenBeforeFailure(h) == WrittenPaths(h) \ { GoModPath }

\* A .go file outside vendor that still imports from the module.
PendingImports(tree, modulePath) ==
    { p \in Files(tree) :
        /\ HasSuffix(Base(p), GoExt)
        /\ ~UnderDirNamed(p, VendorName)
        /\ \E k \in DOMAIN tree[p].imports :
               ImportMatches(tree[p].imports[k], modulePath) }

====
